---- MODULE Spec2Model ----
(***************************************************************************)
(* Verification model of archon-ai.                                        *)
(*   SpecExec        the debounced background extraction executor          *)
(*                   (app/services/memory/langmem_processor.py)            *)
(*   SpecChart       the birth data, the natal chart and the tools that    *)
(*                   need it (app/agents/tools.py, app/api/routes/user.py) *)
(*   SpecOnboarding  update_user_profile and get_onboarding_status         *)
(*                   (app/agents/tools.py, app/services/memory)            *)
(*   SpecStored      every operation that stores a natal chart             *)
(*                   (app/api/routes/auth.py, user.py, tools.py)           *)
(*   SpecGender      the two writers of a user's gender (tools.py,         *)
(*                   memory_service.py)                                    *)
(*   SpecConnections the connection manager and the welcome event          *)
(*                   (websocket.py)                                        *)
(*   SpecToolNode    the tool calls of one reply run together              *)
(*                   (graph_agent.py, tools.py)                            *)
(*   SpecFlags       the properties of OnboardingState on every            *)
(*                   combination of its flags (app/services/memory/        *)
(*                   models.py)                                            *)
(*   SpecTurns       concurrent websocket turns through the graph agent    *)
(*                   (app/api/routes/websocket.py,                         *)
(*                   app/agents/graph_agent.py)                            *)
(*   SpecLoop        the tool rounds of one turn (graph_agent.py,          *)
(*                   astrology_agent.py)                                   *)
(*   SpecMemory      the long-term memory store and its search index       *)
(*                   (app/services/memory/memory_service.py,               *)
(*                   chroma_service.py)                                    *)
(*   SpecProfile     update_user_profile on every field, with failing      *)
(*                   lookups and users without a row (tools.py)            *)
(*   SpecRegistry    the tools of AGENT_TOOLS in deployments where a       *)
(*                   function-level import fails (tools.py)                *)
(*   SpecSession     a websocket turn over the graph's event stream and    *)
(*                   the command-line chat (websocket.py, cli_agent.py)    *)
(* The specifications share one list of variables; each leaves the         *)
(* variables of the others at their initial values.                        *)
(***************************************************************************)
EXTENDS Integers, Sequences, FiniteSets, TLC

(***************************************************************************)
(* Bounds of the model.                                                    *)
(***************************************************************************)
MaxRequested == 2        \* tool calls the model may request in one reply
RoundCap == 5            \* the loop models stop counting tool rounds here
MaxMessages == 4         \* messages received on the websocket connections in one run
MaxSubmits == 3          \* submissions to the ReflectionExecutor in one run

\* ReflectionExecutor.default_delay: 300 s, counted in clock ticks of 150 s.
default_delay == 2

\* `chat_histories[user_id][-10:]`
history_limit == 10

\* AgentExecutor(..., max_iterations=3)
max_iterations == 3
MaxTime == default_delay \* the clock runs 0..MaxTime

Users == {"A", "B"}
Windows == {{"m1"}, {"m1", "m2"}}   \* conversation windows (sets of messages)
DelayArgs == {0, 1}      \* delay_seconds argument in ticks; 0 stands for None and for 0
\* The submissions tried: every window and delay for user A, one submission shape for
\* user B (enough to have another key in _pending_tasks).
SubmitInputs ==
    ({"A"} \X Windows \X DelayArgs) \cup {<<"B", {"m1"}, 0>>}

VARIABLES
    now,              \* the event loop's clock
    tasks,            \* every asyncio.Task the executor ever created, in creation order
    _pending_tasks,   \* ReflectionExecutor._pending_tasks: user -> task index, 0 = no key
    db,               \* the users table (UserDB rows), by user id
    _user_context,    \* app.agents.tools._user_context, the process-wide tool context
    profiles,         \* MemoryService.profiles, the in-memory UserProfile cache
    last,             \* the operation that ran last, its inputs and what it returned
    stored,           \* <<user, field>> pairs update_user_profile has stored so far
    turns,            \* per websocket connection: where its message loop is in a turn
    chat_histories,   \* websocket.chat_histories: user -> number of messages kept
    received,         \* messages received on all connections so far
    graph_run,        \* one run of the compiled graph: its node and what it has done
    executor_run,     \* one run of AstrologyAgent's AgentExecutor
    memories,         \* MemoryService.memories: user id -> list of Memory
    summaries,        \* MemoryService.summaries: user id -> number of summaries kept
    chroma,           \* the Chroma client's documents, each with its collection name
    next_id,          \* how many uuid4 memory ids have been drawn
    returned,         \* every Memory a store_memory call has returned
    mem_last,         \* the memory operation that ran last and what it returned
    importable,       \* the modules a function-level import finds in this deployment
    ws,               \* one websocket connection's message loop and its event stream
    cli,              \* the command-line chat of one user
    active_connections, \* ConnectionManager.active_connections: user -> websocket
    sockets,          \* per websocket: its handler's place and the events it received
    history_messages  \* the messages in websocket.chat_histories: user -> list of messages

execVars == <<now, tasks, _pending_tasks>>
toolVars == <<db, _user_context, profiles, last, stored>>
turnVars == <<turns, chat_histories, received>>
loopVars == <<graph_run, executor_run>>
memVars == <<memories, summaries, chroma, next_id, returned, mem_last>>
envVars == <<importable>>
sessionVars == <<ws, cli>>
connVars == <<active_connections, sockets, history_messages>>
laterVars == <<memVars, envVars, sessionVars, connVars>>
otherVars == <<loopVars, laterVars>>
vars == <<execVars, toolVars, turnVars, otherVars>>

(***************************************************************************)
(* Values.  Python's None is the string "None"; floats are written as      *)
(* strings ("0.0", "30.0") so that None and numbers share one type; an     *)
(* absent chart is the empty tuple and a chart is a one-element tuple.     *)
(***************************************************************************)
NoneV == "None"

\* What a tool call leaves instead of a return value when an exception leaves the tool.
Raised == "raised"

\* Python truth of an Optional value: None, 0.0 and "" are false.
truthy(x) == x \notin {NoneV, "0.0", ""}

\* A row of the users table (app/models/user.py UserDB); exists = FALSE: no such row.
NoRow ==
    [exists |-> FALSE, id |-> NoneV, name |-> NoneV, gender |-> NoneV,
     birth_date |-> NoneV, birth_time |-> NoneV, birth_location |-> NoneV,
     birth_latitude |-> NoneV, birth_longitude |-> NoneV, birth_timezone |-> NoneV,
     current_location |-> NoneV, current_latitude |-> NoneV, current_longitude |-> NoneV,
     natal_chart_data |-> <<>>]

\* The row db.add(UserDB(...)) creates when no birth data is given at registration.
NewRow(u) == [NoRow EXCEPT !.exists = TRUE, !.id = u]

\* `not (user.birth_date and user.birth_latitude and user.birth_longitude)`
needs_onboarding(user) ==
    ~(truthy(user.birth_date) /\ truthy(user.birth_latitude) /\ truthy(user.birth_longitude))

\* The user_profile dict the websocket route builds from a row.
profile_dict(user) ==
    [id |-> user.id, name |-> user.name, gender |-> user.gender,
     birth_date |-> user.birth_date, birth_time |-> user.birth_time,
     birth_location |-> user.birth_location,
     birth_latitude |-> user.birth_latitude, birth_longitude |-> user.birth_longitude,
     current_latitude |-> user.current_latitude,
     current_longitude |-> user.current_longitude,
     needs_onboarding |-> needs_onboarding(user)]

\* `_user_context = {}`: every .get() on it gives None.
NoContext == [user_id |-> NoneV, natal_chart |-> <<>>, profile |-> profile_dict(NoRow)]

\* MemoryService.profiles: UserProfile(id=user_id) has every field None.
NoProfile ==
    [exists |-> FALSE, name |-> NoneV, gender |-> NoneV, birth_date |-> NoneV,
     birth_time |-> NoneV, birth_location |-> NoneV, current_location |-> NoneV]

NoReport ==
    [has_name |-> FALSE, has_gender |-> FALSE, has_birth_date |-> FALSE,
     has_birth_time |-> FALSE, has_birth_location |-> FALSE,
     has_current_location |-> FALSE]

\* The record kept of the tool call that ran last ("route" after anything else);
\* repeated: the call before it was the same tool with the same arguments.
Op(op, user) ==
    [op |-> op, user |-> user, field |-> NoneV, value |-> NoneV, needs_geocoding |-> FALSE,
     geocoder_up |-> TRUE, repeated |-> FALSE, out |-> NoneV, mentions |-> {},
     engine_ok |-> TRUE, engine_called |-> FALSE, stored |-> FALSE,
     state |-> NoReport, pct |-> 0, missing |-> <<>>,
     complete |-> FALSE, next_question |-> NoneV, prompt |-> NoneV]

ToolsIdle ==
    /\ db = [u \in Users |-> NoRow]
    /\ _user_context = NoContext
    /\ profiles = [u \in Users |-> NoProfile]
    /\ last = Op("init", NoneV)
    /\ stored = {}

\* The connections of the model and the user each one's token names.
Conns == {"a1", "a2", "b1"}
user_of == [c \in Conns |-> IF c = "b1" THEN "B" ELSE "A"]

\* What get_system_prompt is given: a profile and the chart of the natal summary.
prompt_of(profile, natal_chart) == [profile |-> profile, natal_chart |-> natal_chart]
NoPrompt == prompt_of(profile_dict(NoRow), <<>>)

\* The stored values of a user as the route reads them from table d: the profile dict
\* and the chart.  A turn's `row` is what was stored when its `prompt` was built.
stored_values(d, u) == prompt_of(profile_dict(d[u]), d[u].natal_chart_data)

\* A connection waiting in `await websocket.receive_text()`.
IdleTurn ==
    [pc |-> "idle", calls |-> <<>>, ran |-> <<>>, results |-> <<>>, messages |-> <<>>,
     used |-> {}, prompt |-> NoPrompt, row |-> NoPrompt]

TurnsIdle ==
    /\ turns = [c \in Conns |-> IdleTurn]
    /\ chat_histories = [u \in Users |-> 0]
    /\ received = 0

\* The graph before START and the executor before its loop.
LoopIdle ==
    /\ graph_run = [node |-> "START", message |-> "", path |-> <<>>, next_action |-> "",
                    requested |-> 0, run |-> 0, tool_rounds |-> 0, response |-> NoneV]
    /\ executor_run = [at |-> "loop", iterations |-> 0, requested |-> 0, run |-> 0,
                       tool_rounds |-> 0, output |-> NoneV]

\* User ids are strings, modelled as sequences of characters.  The first two differ
\* only in a character that get_user_collection_name replaces.
MemUsers == {<<"u", "-", "1">>, <<"u", "_", "1">>, <<"u", "2">>}

\* The characters of a one-letter user id.
chars(user_id) == <<user_id>>

\* Every user id the memory service may see.
MemoryKeys == MemUsers \cup {chars(u) : u \in Users}

NoMemOp ==
    [op |-> "none", user_id |-> <<>>, consolidated |-> 0, limit |-> 0, results |-> {},
     memory |-> <<>>]

\* MemoryService.__init__ (empty caches) and an empty Chroma directory.
MemoryIdle ==
    /\ memories = [u \in MemoryKeys |-> <<>>]
    /\ summaries = [u \in MemoryKeys |-> 0]
    /\ chroma = {}
    /\ next_id = 0
    /\ returned = {}
    /\ mem_last = NoMemOp

\* The modules that tools import inside the function body.
Imports == {"timezonefinder", "app.services.memory"}

\* A deployment in which every import succeeds.
EnvIdle == importable = Imports

\* The websocket loop at `await websocket.receive_text()` with nothing streamed yet,
\* and the command-line chat at its first prompt.
SessionIdle ==
    /\ ws = [pc |-> "receive", source |-> "", pending |-> <<>>, calls |-> 0,
             stream_started |-> FALSE, full_response |-> <<>>, sent |-> <<>>,
             final_output |-> <<>>, assistant |-> <<>>, delivered |-> <<>>,
             completed |-> 0, failed |-> ""]
    /\ cli = [pc |-> "input", conversation_messages |-> {}, completed |-> 0]

\* A websocket nobody has connected yet, and the manager of a fresh process.
NoSocket ==
    [pc |-> "closed", open |-> FALSE, events |-> <<>>, processed |-> 0,
     handed |-> <<>>, full_response |-> <<>>]

ConnIdle ==
    /\ active_connections = [u \in Users |-> NoneV]
    /\ sockets = [c \in Conns |-> NoSocket]
    /\ history_messages = [u \in Users |-> <<>>]

LaterIdle == MemoryIdle /\ EnvIdle /\ SessionIdle /\ ConnIdle

OthersIdle == LoopIdle /\ LaterIdle

ExecIdle ==
    /\ now = 0
    /\ tasks = <<>>
    /\ _pending_tasks = [u \in Users |-> 0]

(***************************************************************************)
(* ReflectionExecutor                                                      *)
(***************************************************************************)

\* `delay_seconds or self.default_delay`
delay_of(delay_seconds) ==
    IF delay_seconds # 0 THEN delay_seconds ELSE default_delay

\* Task.done(): the coroutine has returned (a task whose cancellation was only
\* requested is not done yet).
done(t) == t.st = "done"

cancel_existing_never(ts, pend, user_id, by) == ts

\* `if user_id in self._pending_tasks: ... if not existing_task.done(): existing_task.cancel()`
\* cancelled_by records which submission requested the cancellation.
cancel_existing(ts, pend, user_id, by) ==
    IF pend[user_id] # 0 /\ ~done(ts[pend[user_id]])
    THEN [ts EXCEPT ![pend[user_id]] =
             [@ EXCEPT !.must_cancel = TRUE,
                       !.cancelled_by = IF @ = 0 THEN by ELSE @]]
    ELSE ts

\* The task created by asyncio.create_task(self._delayed_process(...)).  submitted,
\* after_fire (an earlier job of the user had fired by then), cancelled_by and fired
\* (the time the extraction started, -1 = never) are history the properties read.
new_task(user_id, messages, delay) ==
    [user |-> user_id, messages |-> messages, delay |-> delay, submitted |-> now,
     after_fire |-> \E i \in DOMAIN tasks : tasks[i].user = user_id /\ tasks[i].fired # -1,
     st |-> "created", wake |-> -1, must_cancel |-> FALSE,
     cancelled_by |-> 0, fired |-> -1]

\* ReflectionExecutor.submit: no await inside, so it is one atomic step.
submit(user_id, messages, delay_seconds) ==
    /\ Len(tasks) < MaxSubmits
    /\ LET id == Len(tasks) + 1
           delay == delay_of(delay_seconds)
       IN /\ tasks' = Append(cancel_existing(tasks, _pending_tasks, user_id, id),
                             new_task(user_id, messages, delay))
          /\ _pending_tasks' = [_pending_tasks EXCEPT ![user_id] = id]
    /\ UNCHANGED <<now, toolVars, turnVars, otherVars>>

\* `finally: if user_id in self._pending_tasks: del self._pending_tasks[user_id]`
finally_del(pend, user_id) == [pend EXCEPT ![user_id] = 0]

\* First step of _delayed_process: enters the try block and awaits asyncio.sleep(delay).
task_start(i) ==
    /\ tasks[i].st = "created" /\ ~tasks[i].must_cancel
    /\ tasks' = [tasks EXCEPT ![i].st = "sleeping", ![i].wake = now + tasks[i].delay]
    /\ UNCHANGED <<now, _pending_tasks, toolVars, turnVars, otherVars>>

\* A task cancelled before its first step: CancelledError is thrown into a coroutine
\* that has not started, so the try/finally of _delayed_process is never entered.
task_cancelled_unstarted(i) ==
    /\ tasks[i].st = "created" /\ tasks[i].must_cancel
    /\ tasks' = [tasks EXCEPT ![i].st = "done"]
    /\ UNCHANGED <<now, _pending_tasks, toolVars, turnVars, otherVars>>

\* CancelledError raised at the await the task is suspended in (the sleep or the
\* extraction): `except asyncio.CancelledError`, then the finally block.
task_cancelled(i) ==
    /\ tasks[i].st \in {"sleeping", "extracting"} /\ tasks[i].must_cancel
    /\ tasks' = [tasks EXCEPT ![i].st = "done"]
    /\ _pending_tasks' = finally_del(_pending_tasks, tasks[i].user)
    /\ UNCHANGED <<now, toolVars, turnVars, otherVars>>

\* The sleep is over: the extraction starts (extract_memories_from_conversation is awaited).
task_fire(i) ==
    /\ tasks[i].st = "sleeping" /\ ~tasks[i].must_cancel
    /\ now >= tasks[i].wake
    /\ tasks' = [tasks EXCEPT ![i].st = "extracting", ![i].fired = now]
    /\ UNCHANGED <<now, _pending_tasks, toolVars, turnVars, otherVars>>

\* The extraction and the callback return (or raise, which is logged), then the finally block.
task_finish(i) ==
    /\ tasks[i].st = "extracting" /\ ~tasks[i].must_cancel
    /\ tasks' = [tasks EXCEPT ![i].st = "done"]
    /\ _pending_tasks' = finally_del(_pending_tasks, tasks[i].user)
    /\ UNCHANGED <<now, toolVars, turnVars, otherVars>>

\* The clock advances when the loop has no ready callback left (the first step of a
\* created task, the delivery of a requested cancellation): asyncio runs those in the
\* loop iteration that follows, within the tick.
Tick ==
    /\ now < MaxTime
    /\ \A i \in DOMAIN tasks :
          /\ tasks[i].st # "created"
          /\ ~(tasks[i].must_cancel /\ ~done(tasks[i]))
    /\ now' = now + 1
    /\ UNCHANGED <<tasks, _pending_tasks, toolVars, turnVars, otherVars>>

ExecInit == ExecIdle /\ ToolsIdle /\ TurnsIdle /\ OthersIdle

ExecNext ==
    \/ \E in \in SubmitInputs : submit(in[1], in[2], in[3])
    \/ \E i \in DOMAIN tasks : task_start(i)
    \/ \E i \in DOMAIN tasks : task_cancelled_unstarted(i)
    \/ \E i \in DOMAIN tasks : task_cancelled(i)
    \/ \E i \in DOMAIN tasks : task_fire(i)
    \/ \E i \in DOMAIN tasks : task_finish(i)
    \/ Tick

SpecExec == ExecInit /\ [][ExecNext]_vars

(***************************************************************************)
(* Properties of the ReflectionExecutor                                    *)
(***************************************************************************)
TasksOf(u) == {i \in DOMAIN tasks : tasks[i].user = u}
LastOf(u) == CHOOSE i \in TasksOf(u) : \A j \in TasksOf(u) : j <= i
FirstOf(u) == CHOOSE i \in TasksOf(u) : \A j \in TasksOf(u) : i <= j
\* jobs of u that are pending (their extraction has not started) and not cancelled
PendingLive(u) ==
    {i \in TasksOf(u) : tasks[i].st \in {"created", "sleeping"} /\ ~tasks[i].must_cancel}
FiredOf(u) == {i \in TasksOf(u) : tasks[i].fired # -1}
\* every submission of u so far arrived while no earlier job of u had fired
Burst(u) == \A i \in TasksOf(u) : ~tasks[i].after_fire
AllDone(u) == \A i \in TasksOf(u) : done(tasks[i])

\* C2: for any number of submissions of one user, each arriving before the previous
\* one has fired, at most one job of the user is pending and not cancelled at any
\* moment, and exactly one extraction fires, that of the last submission.
C2_SingleSlotDebounce ==
    \A u \in Users :
        (TasksOf(u) # {} /\ Burst(u)) =>
            /\ Cardinality(PendingLive(u)) <= 1
            /\ FiredOf(u) \subseteq {LastOf(u)}
            /\ AllDone(u) => FiredOf(u) = {LastOf(u)}

\* The two-submission case of the debounce: u has submitted exactly twice, the second
\* time (at t1) before the delay of the first (submitted at t0) had elapsed.
TwoCalls(u) ==
    /\ Cardinality(TasksOf(u)) = 2
    /\ tasks[LastOf(u)].submitted < tasks[FirstOf(u)].submitted + tasks[FirstOf(u)].delay

\* C3: given an extraction scheduled at t0 with delay D and a second schedule call of
\* the same user at t1 < t0+D, the job of the first call never runs its extraction,
\* the only extraction that fires is the job of the second call (which holds the
\* window of the second call), it fires not before t1+D, and once both jobs are
\* over it has fired exactly once.
C3_TwoCallsFireOnce ==
    \A u \in Users :
        TwoCalls(u) =>
            /\ tasks[FirstOf(u)].fired = -1
            /\ tasks[LastOf(u)].fired # -1 =>
                   tasks[LastOf(u)].fired >= tasks[LastOf(u)].submitted + tasks[LastOf(u)].delay
            /\ AllDone(u) => FiredOf(u) = {LastOf(u)}

\* C3 witness: the first job was already sleeping when the second call cancelled it,
\* and the second job has fired and finished.
C3_Witness ==
    \E u \in Users :
        /\ TwoCalls(u)
        /\ tasks[FirstOf(u)].wake # -1
        /\ tasks[FirstOf(u)].cancelled_by = LastOf(u)
        /\ AllDone(u)
        /\ tasks[LastOf(u)].fired # -1

\* C4: a superseded job (one a later submit cancelled) never runs any part of its
\* extraction, and every message of its window is in the window of the job that
\* replaced it.
C4_SupersededNeverRuns ==
    \A i \in DOMAIN tasks :
        tasks[i].cancelled_by # 0 =>
            /\ tasks[i].fired = -1
            /\ tasks[i].messages \subseteq tasks[tasks[i].cancelled_by].messages

\* The first half of C4 alone: no submit cancels a job whose extraction is in progress.
C4_NoCancelInExtraction ==
    \A i \in DOMAIN tasks : tasks[i].cancelled_by # 0 => tasks[i].fired = -1

(***************************************************************************)
(* The agent tools (app/agents/tools.py), the profile route and the        *)
(* onboarding state (app/services/memory).                                 *)
(***************************************************************************)

\* What the model may pass to update_user_profile.
Fields == {"name", "gender", "birth_date", "birth_time", "birth_city", "current_city",
           "nickname"}
Values ==
    [f \in Fields |->
        CASE f = "name" -> {"Sarah"}
          [] f = "gender" -> {"female"}
          [] f = "birth_date" -> {"June 15, 1990", "sometime"}
          [] f = "birth_time" -> {"2:30 PM", "sometime"}
          [] f = "birth_city" -> {"Austin", "Null Island", "Atlantis"}
          [] f = "current_city" -> {"Austin", "Atlantis"}
          [] OTHER -> {"Sally"}]

\* The date of the run, which dateutil fills in when the text has no date.
Today == "2026-11-03"

\* A parser that gives today's date at midnight for a text it cannot read.
date_parser_parse_fuzzy(value) ==
    CASE value = "June 15, 1990" -> [ok |-> TRUE, date |-> "1990-06-15", time |-> "00:00:00"]
      [] value = "2:30 PM" -> [ok |-> TRUE, date |-> Today, time |-> "14:30:00"]
      [] OTHER -> [ok |-> TRUE, date |-> Today, time |-> "00:00:00"]

\* dateutil.parser.parse: a datetime, or ok = FALSE when it raises.
date_parser_parse(value) ==
    CASE value = "June 15, 1990" -> [ok |-> TRUE, date |-> "1990-06-15", time |-> "00:00:00"]
      [] value = "2:30 PM" -> [ok |-> TRUE, date |-> Today, time |-> "14:30:00"]
      [] OTHER -> [ok |-> FALSE, date |-> NoneV, time |-> NoneV]

\* Nominatim.geocode: a location, or found = FALSE for None.
geocode(value) ==
    CASE value = "Austin" -> [found |-> TRUE, latitude |-> "30.3", longitude |-> "-97.7"]
      [] value = "Null Island" -> [found |-> TRUE, latitude |-> "0.0", longitude |-> "0.0"]
      [] OTHER -> [found |-> FALSE, latitude |-> NoneV, longitude |-> NoneV]

\* `tf.timezone_at(lat=..., lng=...) or "UTC"`: None over the open sea.
timezone_at(location) ==
    IF location.latitude = "30.3" THEN "America/Chicago" ELSE "UTC"

\* kerykeion_service.compute_natal_chart: the chart is a function of its arguments.
compute_natal_chart(birth_date, birth_time, latitude, longitude, timezone) ==
    << <<birth_date, birth_time, latitude, longitude, timezone>> >>

\* A chart whose content carries a stamp of the computation: whether the row had a
\* chart before.
chart_of_stamped(user) ==
    compute_natal_chart(user.birth_date, user.birth_time, user.birth_latitude,
                        user.birth_longitude,
                        IF user.natal_chart_data = <<>> THEN "first" ELSE "again")

\* The chart that compute_natal_chart gives for the birth data of a row.
chart_of(user) ==
    compute_natal_chart(user.birth_date, user.birth_time, user.birth_latitude,
                        user.birth_longitude,
                        IF truthy(user.birth_timezone) THEN user.birth_timezone ELSE "UTC")

\* The helper inside update_user_profile; engine_ok = FALSE when the engine raises.
compute_and_store_natal_chart(user, ctx, engine_ok) ==
    IF truthy(user.birth_date) /\ truthy(user.birth_latitude) /\ truthy(user.birth_longitude)
    THEN IF engine_ok
         THEN [user |-> [user EXCEPT !.natal_chart_data = chart_of(user)],
               ctx |-> [ctx EXCEPT !.natal_chart = chart_of(user),
                                   !.profile.birth_date = user.birth_date,
                                   !.profile.birth_time = user.birth_time,
                                   !.profile.birth_latitude = user.birth_latitude,
                                   !.profile.birth_longitude = user.birth_longitude],
               natal_chart |-> chart_of(user), called |-> TRUE]
         ELSE [user |-> user, ctx |-> ctx, natal_chart |-> <<>>, called |-> TRUE]
    ELSE [user |-> user, ctx |-> ctx, natal_chart |-> <<>>, called |-> FALSE]

\* What a run of a tool leaves behind and returns.
Ret(d, ctx, out, st, called) ==
    [db |-> d, ctx |-> ctx, out |-> out, mentions |-> {}, stored |-> st,
     engine_called |-> called]

\* A returned f-string that has `{value}` in it.
Mentioning(r, value) == [r EXCEPT !.mentions = {value}]

\* A lookup that writes the location's name to the row before it asks the geocoder.
update_location_name_first(ctx, d, field, value, geocoder_up, engine_ok) ==
    Ret([d EXCEPT ![ctx.user_id].birth_location = value], ctx,
        IF geocoder_up THEN "Could not find coordinates" ELSE "Error looking up location",
        FALSE, FALSE)

\* update_user_profile, the branch `needs_geocoding and field in [...]`.
update_location(ctx, d, field, value, geocoder_up, engine_ok) ==
    LET user_id == ctx.user_id
        user == d[user_id]
        location == geocode(value)
        timezone == timezone_at(location)
    IN  IF ~geocoder_up THEN Ret(d, ctx, "Error looking up location", FALSE, FALSE)
        ELSE IF ~location.found
        THEN Mentioning(Ret(d, ctx, "Could not find coordinates", FALSE, FALSE), value)
        ELSE IF ~user.exists THEN Ret(d, ctx, "Error: User not found in database.", FALSE, FALSE)
        ELSE IF field = "birth_city"
        THEN LET u1 == [user EXCEPT !.birth_location = value,
                                    !.birth_latitude = location.latitude,
                                    !.birth_longitude = location.longitude,
                                    !.birth_timezone = timezone]
                 c == compute_and_store_natal_chart(u1, ctx, engine_ok)
             IN  Mentioning(
                     Ret([d EXCEPT ![user_id] = c.user], c.ctx,
                         IF c.natal_chart # <<>>
                         THEN "Saved birth location. Your natal chart has been computed!"
                         ELSE IF truthy(u1.birth_date)
                              THEN "Saved birth location. Chart computed!"
                              ELSE "Saved birth location. Still need your birth date",
                         TRUE, c.called), value)
        ELSE Mentioning(
                 Ret([d EXCEPT ![user_id] = [user EXCEPT !.current_location = value,
                                                  !.current_latitude = location.latitude,
                                                  !.current_longitude = location.longitude]],
                     ctx, "Updated current location", TRUE, FALSE), value)

\* A write that makes the row when there is none.
update_field_upsert(ctx, d, field, value, engine_ok) ==
    Ret([d EXCEPT ![ctx.user_id] = [NewRow(ctx.user_id) EXCEPT !.name = value]], ctx,
        "Nice to meet you!", TRUE, FALSE)

\* update_user_profile, the branches after `with get_db_context() as db`.
update_field(ctx, d, field, value, engine_ok) ==
    LET user_id == ctx.user_id
        user == d[user_id]
        parsed == date_parser_parse(value)
    IN  IF ~user.exists THEN Ret(d, ctx, "Error: User not found in database.", FALSE, FALSE)
        ELSE IF field = "name"
        THEN Mentioning(Ret([d EXCEPT ![user_id].name = value],
                            [ctx EXCEPT !.profile.name = value], "Nice to meet you!",
                            TRUE, FALSE), value)
        ELSE IF field = "gender"
        THEN Mentioning(Ret([d EXCEPT ![user_id].gender = value],
                            [ctx EXCEPT !.profile.gender = value], "Updated gender/pronouns",
                            TRUE, FALSE), value)
        ELSE IF field = "birth_date"
        THEN IF ~parsed.ok
             THEN Mentioning(Ret(d, ctx, "Could not parse date", FALSE, FALSE), value)
             ELSE LET u1 == [user EXCEPT !.birth_date = parsed.date]
                      c == compute_and_store_natal_chart(u1, ctx, engine_ok)
                  IN  Ret([d EXCEPT ![user_id] = c.user], c.ctx,
                          IF c.natal_chart # <<>>
                          THEN "Saved birth date. Your natal chart has been computed!"
                          ELSE IF truthy(u1.birth_latitude)
                               THEN "Saved birth date. Chart computed!"
                               ELSE "Saved birth date. Still need your birth location",
                          TRUE, c.called)
        ELSE IF field = "birth_time"
        THEN IF ~parsed.ok
             THEN Mentioning(Ret(d, ctx, "Could not parse time", FALSE, FALSE), value)
             ELSE LET u1 == [user EXCEPT !.birth_time = parsed.time]
                      c == compute_and_store_natal_chart(u1, ctx, engine_ok)
                  IN  Ret([d EXCEPT ![user_id] = c.user], c.ctx,
                          IF c.natal_chart # <<>>
                          THEN "Saved birth time. Your natal chart has been updated"
                          ELSE "Saved birth time. Still need birth date and location",
                          TRUE, c.called)
        ELSE Ret(d, ctx, "Unknown field", FALSE, FALSE)

\* The tool update_user_profile run against context ctx and table d.
update_user_profile_run(ctx, d, field, value, needs_geocoding, geocoder_up, engine_ok) ==
    IF ~truthy(ctx.user_id)
    THEN Ret(d, ctx, "Error: No user context available.", FALSE, FALSE)
    ELSE IF needs_geocoding /\ field \in {"birth_city", "current_city"}
         THEN update_location(ctx, d, field, value, geocoder_up, engine_ok)
         ELSE update_field(ctx, d, field, value, engine_ok)

\* The tools that start with `if not natal_chart: return "Error: ..."`.
ChartTools == {"get_current_transits", "analyze_synastry", "search_chart_memory",
               "get_solar_return", "get_planetary_dignities", "get_aspect_patterns"}

ChartUnavailable == "Error: User's natal chart not available."

\* A chart tool: the guard on the context's chart, then the engine inside try/except.
chart_tool_run(ctx, name, engine_ok) ==
    IF ctx.natal_chart = <<>>
    THEN [out |-> ChartUnavailable, engine_called |-> FALSE]
    ELSE [out |-> IF engine_ok \/ name = "search_chart_memory"
                  THEN "result" ELSE "Error calculating",
          engine_called |-> name # "search_chart_memory"]

\* MemoryService.get_onboarding_state
get_onboarding_state(user_id) ==
    LET profile == profiles[user_id]
    IN  IF ~profile.exists THEN NoReport
        ELSE [has_name |-> profile.name # NoneV,
              has_gender |-> profile.gender # NoneV,
              has_birth_date |-> profile.birth_date # NoneV,
              has_birth_time |-> profile.birth_time # NoneV,
              has_birth_location |-> profile.birth_location # NoneV,
              has_current_location |-> profile.current_location # NoneV]

\* sum() of a list of booleans
sum(flags) == Cardinality({i \in DOMAIN flags : flags[i]})

\* OnboardingState.is_enhanced
is_enhanced(state) ==
    /\ state.has_name /\ state.has_gender /\ state.has_birth_date /\ state.has_birth_location
    /\ state.has_birth_time

\* OnboardingState.is_complete
is_complete(state) ==
    state.has_name /\ state.has_gender /\ state.has_birth_date /\ state.has_birth_location

\* The percentage with `//` in the place of `/`: each share is floored before it is
\* weighted.
completion_percentage_floor_division(state) ==
    LET required == <<state.has_name, state.has_gender, state.has_birth_date,
                      state.has_birth_location>>
        optional == <<state.has_birth_time, state.has_current_location>>
    IN  (sum(required) \div Len(required)) * 80 + (sum(optional) \div Len(optional)) * 20

\* OnboardingState.completion_percentage:
\* int(sum(required)/len(required)*80 + sum(optional)/len(optional)*20).  The two
\* shares are multiples of 1/4 and 1/2, which floats hold exactly, so the sum is the
\* exact fraction below and int() truncates it.
completion_percentage(state) ==
    LET required == <<state.has_name, state.has_gender, state.has_birth_date,
                      state.has_birth_location>>
        optional == <<state.has_birth_time, state.has_current_location>>
    IN  (sum(required) * 80 * Len(optional) + sum(optional) * 20 * Len(required))
            \div (Len(required) * Len(optional))

\* OnboardingState.missing_required
missing_required(state) ==
    (IF state.has_name THEN <<>> ELSE <<"name">>)
    \o (IF state.has_gender THEN <<>> ELSE <<"gender">>)
    \o (IF state.has_birth_date THEN <<>> ELSE <<"birth_date">>)
    \o (IF state.has_birth_location THEN <<>> ELSE <<"birth_location">>)

\* next_question with the two optional questions left out.
next_question_required_only(state) ==
    IF ~state.has_name THEN "name"
    ELSE IF ~state.has_gender THEN "gender"
    ELSE IF ~state.has_birth_date THEN "birth_date"
    ELSE IF ~state.has_birth_location THEN "birth_location"
    ELSE NoneV

\* OnboardingState.next_question
next_question(state) ==
    IF ~state.has_name THEN "name"
    ELSE IF ~state.has_gender THEN "gender"
    ELSE IF ~state.has_birth_date THEN "birth_date"
    ELSE IF ~state.has_birth_location THEN "birth_location"
    ELSE IF ~state.has_birth_time THEN "birth_time"
    ELSE IF ~state.has_current_location THEN "current_location"
    ELSE NoneV

\* The dict `prompts` of get_friendly_prompt; dict_get is prompts.get(key).
prompts ==
    [name |-> "What's your name?",
     gender |-> "What pronouns do you prefer? (he/him, she/her, they/them)",
     birth_date |-> "When were you born? (date and time if you know it)",
     birth_location |-> "Where were you born? (city is fine)",
     birth_time |->
         "Do you know what time you were born? This helps with accuracy, but it's okay if you don't know.",
     current_location |->
         "Where are you located now? This helps with daily transit readings."]

dict_get(dict, key) == IF key \in DOMAIN dict THEN dict[key] ELSE NoneV

\* OnboardingState.get_friendly_prompt
get_friendly_prompt(state) ==
    LET next_q == next_question(state)
    IN  IF truthy(next_q) THEN dict_get(prompts, next_q) ELSE NoneV

\* POST /api/auth/register without birth data: a new row, no chart.
register(u) ==
    /\ ~db[u].exists
    /\ db' = [db EXCEPT ![u] = NewRow(u)]
    /\ last' = Op("route", NoneV)
    /\ UNCHANGED <<_user_context, profiles, stored, execVars, turnVars, otherVars>>

\* The websocket route on a message: reload the row, then build_graph, which calls
\* set_user_context.  A row never loses its chart, so the route's natal_chart_data
\* is the row's.
set_user_context(u) ==
    /\ db[u].exists
    /\ _user_context' = [user_id |-> u, natal_chart |-> db[u].natal_chart_data,
                         profile |-> profile_dict(db[u])]
    /\ last' = Op("route", NoneV)
    /\ UNCHANGED <<db, profiles, stored, execVars, turnVars, otherVars>>

\* The user whose profile the model fills in.
ToolUsers == {"A"}

\* The calls tried: every field and value; needs_geocoding set for a city, as the
\* tool's documentation sets it, or left out; the geocoder down during a lookup; the
\* chart engine raising where the field can lead to it.
ToolInputs ==
    {c \in [field : Fields, value : UNION {Values[f] : f \in Fields},
            needs_geocoding : BOOLEAN, geocoder_up : BOOLEAN, engine_ok : BOOLEAN] :
        /\ c.value \in Values[c.field]
        /\ c.needs_geocoding => c.field \in {"birth_city", "current_city"}
        /\ ~c.geocoder_up => c.needs_geocoding
        /\ ~c.engine_ok => c.field \in {"birth_date", "birth_time", "birth_city"}}

\* The calls about the birth data, which the chart depends on.
BirthInputs == {c \in ToolInputs : c.field \in {"birth_date", "birth_time", "birth_city"}}

\* The calls of an onboarding conversation in which every lookup succeeds.
OnboardingInputs ==
    {c \in ToolInputs : c.geocoder_up /\ c.engine_ok /\ c.value # "Null Island"}

\* The tool update_user_profile: its imports, which come before the `try`, then its
\* body.
update_user_profile(field, value, needs_geocoding, geocoder_up, engine_ok) ==
    LET user_id == _user_context.user_id
    IN  \E r \in {IF "timezonefinder" \in importable
                  THEN update_user_profile_run(_user_context, db, field, value,
                                               needs_geocoding, geocoder_up, engine_ok)
                  ELSE Ret(db, _user_context, Raised, FALSE, FALSE)} :
        /\ db' = r.db
        /\ _user_context' = r.ctx
        /\ stored' = IF r.stored THEN stored \cup {<<user_id, field>>} ELSE stored
        /\ last' = [Op("update_user_profile", user_id) EXCEPT
                       !.field = field, !.value = value,
                       !.needs_geocoding = needs_geocoding,
                       !.geocoder_up = geocoder_up,
                       !.repeated = /\ last.op = "update_user_profile"
                                    /\ last.user = user_id
                                    /\ last.field = field
                                    /\ last.value = value
                                    /\ last.needs_geocoding = needs_geocoding,
                       !.out = r.out, !.mentions = r.mentions, !.engine_ok = engine_ok,
                       !.engine_called = r.engine_called, !.stored = r.stored]
        /\ UNCHANGED <<profiles, execVars, turnVars, otherVars>>

chart_tool(name, engine_ok) ==
    LET r == chart_tool_run(_user_context, name, engine_ok)
    IN  /\ last' = [Op(name, _user_context.user_id) EXCEPT
                       !.out = r.out, !.engine_ok = engine_ok,
                       !.engine_called = r.engine_called]
        /\ UNCHANGED <<db, _user_context, profiles, stored, execVars, turnVars, otherVars>>

\* The tool get_onboarding_status
get_onboarding_status ==
    LET user_id == _user_context.user_id
        state == get_onboarding_state(user_id)
    IN  /\ last' = IF "app.services.memory" \notin importable
                   THEN [Op("get_onboarding_status", user_id) EXCEPT !.out = Raised]
                   ELSE IF ~truthy(user_id)
                   THEN [Op("get_onboarding_status", user_id) EXCEPT
                            !.out = "No user context available."]
                   ELSE [Op("get_onboarding_status", user_id) EXCEPT
                            !.out = IF is_complete(state) THEN "Profile complete"
                                    ELSE "Profile incomplete",
                            !.state = state,
                            !.pct = completion_percentage(state),
                            !.missing = missing_required(state)]
        /\ UNCHANGED <<db, _user_context, profiles, stored, execVars, turnVars, otherVars>>

\* The bodies tried on PUT /api/user/me; "None" leaves the column alone.
PutBodies ==
    {[birth_time |-> "09:00", current_location |-> NoneV]}

\* PUT /api/user/me, on the columns of the row kept here: birth_time and
\* current_location are assigned when given, the row is committed, and the chart
\* columns are not touched.
put_me(u, updates) ==
    /\ db[u].exists
    /\ db' = [db EXCEPT ![u] =
                 [@ EXCEPT !.birth_time = IF updates.birth_time # NoneV
                                          THEN updates.birth_time ELSE @,
                           !.current_location = IF updates.current_location # NoneV
                                                THEN updates.current_location ELSE @]]
    /\ last' = Op("route", NoneV)
    /\ UNCHANGED <<_user_context, profiles, stored, execVars, turnVars, otherVars>>

\* MemoryService.get_or_create_profile
get_or_create_profile(u) ==
    /\ profiles' = IF profiles[u].exists THEN profiles
                   ELSE [profiles EXCEPT ![u] = [NoProfile EXCEPT !.exists = TRUE]]
    /\ last' = Op("route", NoneV)
    /\ UNCHANGED <<db, _user_context, stored, execVars, turnVars, otherVars>>

ToolsInit == ToolsIdle /\ ExecIdle /\ TurnsIdle /\ OthersIdle

\* The birth data, the chart and the tools that need it.
ChartNext ==
    \/ \E u \in ToolUsers : register(u)
    \/ \E u \in ToolUsers : set_user_context(u)
    \/ \E c \in BirthInputs :
           update_user_profile(c.field, c.value, c.needs_geocoding, c.geocoder_up, c.engine_ok)
    \/ \E t \in ChartTools : \E ok \in BOOLEAN : chart_tool(t, ok)
    \/ \E u \in ToolUsers : \E b \in PutBodies : put_me(u, b)

SpecChart == ToolsInit /\ [][ChartNext]_vars

\* An onboarding conversation and the onboarding status.
OnboardingNext ==
    \/ \E u \in ToolUsers : register(u)
    \/ \E u \in ToolUsers : set_user_context(u)
    \/ \E c \in OnboardingInputs :
           update_user_profile(c.field, c.value, c.needs_geocoding, c.geocoder_up, c.engine_ok)
    \/ get_onboarding_status
    \/ \E u \in ToolUsers : get_or_create_profile(u)

SpecOnboarding == ToolsInit /\ [][OnboardingNext]_vars

\* The user of the command-line chat, who has a memory profile and no users row.
CliUsers == {"B"}

\* cli_agent.interactive_chat up to build_graph: get_or_create_user makes the memory
\* profile, build_graph sets the tool context from profile.model_dump().
interactive_chat(u) ==
    /\ ~db[u].exists
    /\ profiles' = IF profiles[u].exists THEN profiles
                   ELSE [profiles EXCEPT ![u] = [NoProfile EXCEPT !.exists = TRUE]]
    /\ _user_context' = [user_id |-> u, natal_chart |-> <<>>,
                         profile |-> [profile_dict(NoRow) EXCEPT !.id = u]]
    /\ last' = Op("route", NoneV)
    /\ UNCHANGED <<db, stored, execVars, turnVars, otherVars>>

\* The calls tried on the profile: every field, parseable and unparseable values,
\* cities the geocoder finds and does not find, the geocoder failing, and the engine
\* failing on a birth date.
ProfileInputs ==
    {c \in ToolInputs : /\ c.value # "Null Island"
                        /\ ~c.engine_ok => c.field = "birth_date"}

\* update_user_profile for users with and without a row.
ProfileNext ==
    \/ \E u \in ToolUsers : register(u)
    \/ \E u \in ToolUsers : set_user_context(u)
    \/ \E u \in CliUsers : interactive_chat(u)
    \/ \E c \in ProfileInputs :
           update_user_profile(c.field, c.value, c.needs_geocoding, c.geocoder_up, c.engine_ok)

SpecProfile == ToolsInit /\ [][ProfileNext]_vars

(***************************************************************************)
(* Every place that stores a natal chart: registration with birth data     *)
(* (app/api/routes/auth.py), GET /chart and POST /chart/recompute          *)
(* (app/api/routes/user.py) and the helper of update_user_profile.  The    *)
(* routes test the coordinates only; the engine raises on a missing date.  *)
(***************************************************************************)

\* The dates and times datetime.fromisoformat reads.
IsoDates == {"1990-06-15", Today}
IsoTimes == {"14:30:00", "00:00:00", "09:00"}

\* A _parse_datetime that reads any text.
_parse_datetime_lenient(date_str, time_str) == TRUE

\* KerykeionService._parse_datetime: fromisoformat of "<date> <time>", the time being
\* 12:00:00 when none is given; FALSE when it raises, as it does on "None 12:00:00".
_parse_datetime(date_str, time_str) ==
    /\ date_str \in IsoDates
    /\ truthy(time_str) => time_str \in IsoTimes

\* The try block of the three routes on a row whose coordinates are set: the chart is
\* computed and cached, or the exception is caught and the row is left as it is.
compute_and_cache(user, engine_ok) ==
    IF engine_ok /\ _parse_datetime(user.birth_date, user.birth_time)
    THEN [user EXCEPT !.natal_chart_data = chart_of(user)]
    ELSE user

\* The birth data a registration may carry: none, all of it, coordinates without a
\* date, a date without coordinates, and the coordinates 0.0.
RegisterBodies ==
    {d \in [birth_date : {NoneV, "1990-06-15"}, birth_time : {NoneV, "14:30:00"},
            birth_latitude : {NoneV, "30.3", "0.0"},
            birth_longitude : {NoneV, "-97.7", "0.0"}] :
        /\ d.birth_latitude = NoneV <=> d.birth_longitude = NoneV
        /\ d.birth_latitude = "0.0" <=> d.birth_longitude = "0.0"
        /\ d.birth_time # NoneV => d.birth_date # NoneV}

\* POST /api/auth/register with the birth data of user_data.
register_birth_data(u, user_data, engine_ok) ==
    LET db_user == [NewRow(u) EXCEPT !.birth_date = user_data.birth_date,
                                     !.birth_time = user_data.birth_time,
                                     !.birth_latitude = user_data.birth_latitude,
                                     !.birth_longitude = user_data.birth_longitude]
    IN  /\ ~db[u].exists
        /\ db' = [db EXCEPT ![u] =
                     IF truthy(user_data.birth_latitude) /\ truthy(user_data.birth_longitude)
                     THEN compute_and_cache(db_user, engine_ok)
                     ELSE db_user]
        /\ last' = Op("route", NoneV)
        /\ UNCHANGED <<_user_context, profiles, stored, execVars, turnVars, otherVars>>

\* GET /api/user/chart: the cached chart, else a chart computed from the row.  The
\* chart is assigned to current_user inside another session's context, so the commit
\* may or may not write it (persisted).
get_natal_chart(u, engine_ok, persisted) ==
    /\ db[u].exists
    /\ db' = IF db[u].natal_chart_data = <<>>
                 /\ truthy(db[u].birth_latitude) /\ truthy(db[u].birth_longitude)
                 /\ persisted
              THEN [db EXCEPT ![u] = compute_and_cache(@, engine_ok)]
              ELSE db
    /\ last' = Op("get_natal_chart", u)
    /\ UNCHANGED <<_user_context, profiles, stored, execVars, turnVars, otherVars>>

\* POST /api/user/chart/recompute
recompute_natal_chart(u, engine_ok) ==
    /\ db[u].exists
    /\ db' = IF truthy(db[u].birth_latitude) /\ truthy(db[u].birth_longitude)
              THEN [db EXCEPT ![u] = compute_and_cache(@, engine_ok)]
              ELSE db
    /\ last' = Op("recompute_natal_chart", u)
    /\ UNCHANGED <<_user_context, profiles, stored, execVars, turnVars, otherVars>>

\* The tool calls about the birth data in which the lookup service is up.
StoreInputsOfTool ==
    {c \in BirthInputs : c.geocoder_up /\ c.needs_geocoding = (c.field = "birth_city")}

StoredNext ==
    \/ \E u \in ToolUsers : \E d \in RegisterBodies : \E ok \in BOOLEAN :
           register_birth_data(u, d, ok)
    \/ \E u \in ToolUsers : set_user_context(u)
    \/ \E c \in StoreInputsOfTool :
           update_user_profile(c.field, c.value, c.needs_geocoding, c.geocoder_up, c.engine_ok)
    \/ \E u \in ToolUsers : \E b \in PutBodies : put_me(u, b)
    \/ \E u \in ToolUsers : \E ok, persisted \in BOOLEAN : get_natal_chart(u, ok, persisted)
    \/ \E u \in ToolUsers : \E ok \in BOOLEAN : recompute_natal_chart(u, ok)

SpecStored == ToolsInit /\ [][StoredNext]_vars

(***************************************************************************)
(* The two writers of a gender: the tool update_user_profile, which writes *)
(* the users table, and MemoryService.set_gender, which writes the memory  *)
(* profile.                                                                *)
(***************************************************************************)

\* The values of the enum Gender.
Gender == {"male", "female", "non_binary", "other", "prefer_not_to_say"}

\* The value strings an update is called with.
GenderValues == {"female", "She/Her ", "woman", "nonbinary", "two-spirit"}

\* gender.lower().strip()
lower_strip(gender) == IF gender = "She/Her " THEN "she/her" ELSE gender

\* The dict gender_map of set_gender
gender_map ==
    [k \in {"male", "man", "boy", "he", "him", "he/him", "female", "woman", "girl", "she",
            "her", "she/her", "non-binary", "nonbinary", "non_binary", "they", "them",
            "they/them", "other", "prefer not to say", "prefer_not_to_say"} |->
        CASE k \in {"male", "man", "boy", "he", "him", "he/him"} -> "male"
          [] k \in {"female", "woman", "girl", "she", "her", "she/her"} -> "female"
          [] k \in {"non-binary", "nonbinary", "non_binary", "they", "them", "they/them"}
               -> "non_binary"
          [] k = "other" -> "other"
          [] OTHER -> "prefer_not_to_say"]

\* MemoryService.set_gender: the value is normalised, then update_profile creates the
\* profile if there is none and assigns the field.
set_gender(user_id, gender) ==
    LET key == lower_strip(gender)
        normalized == IF key \in DOMAIN gender_map THEN gender_map[key]
                      ELSE "prefer_not_to_say"
    IN  /\ profiles' = [profiles EXCEPT ![user_id] =
                           [@ EXCEPT !.exists = TRUE, !.gender = normalized]]
        /\ last' = [Op("set_gender", user_id) EXCEPT !.field = "gender", !.value = gender]
        /\ UNCHANGED <<db, _user_context, stored, execVars, turnVars, otherVars>>

GenderNext ==
    \/ \E u \in Users : register(u)
    \/ \E u \in Users : set_user_context(u)
    \/ \E value \in GenderValues : update_user_profile("gender", value, FALSE, TRUE, TRUE)
    \/ \E u \in Users : \E gender \in GenderValues : set_gender(u, gender)

SpecGender == ToolsInit /\ [][GenderNext]_vars

\* C29: whatever value string an update is called with, the gender stored for a user,
\* in the users table and in the memory profile, is unset or one of male, female,
\* non_binary, other and prefer_not_to_say.
C29_StoredGenderIsEnumValue ==
    \A u \in Users :
        /\ db[u].gender \in Gender \cup {NoneV}
        /\ profiles[u].gender \in Gender \cup {NoneV}

\* C28: in every reachable state a row that holds a natal chart also holds a birth
\* date and the coordinates of the birth location, and the chart was computed from a
\* date and coordinates: registration, the tool, GET /chart and recompute never store
\* a chart for a user who lacks either.
C28_ChartImpliesBirthData ==
    \A u \in Users :
        db[u].natal_chart_data # <<>> =>
            /\ db[u].birth_date # NoneV
            /\ db[u].birth_latitude # NoneV
            /\ db[u].birth_longitude # NoneV
            /\ \A i \in {1, 3, 4} : db[u].natal_chart_data[1][i] # NoneV

\* POST /chart/recompute stored a chart for a user who registered with a birth date
\* and coordinates.
C28_Witness ==
    \E u \in Users :
        /\ last.op = "recompute_natal_chart"
        /\ db[u].natal_chart_data # <<>>
        /\ db[u].birth_location = NoneV

(***************************************************************************)
(* Properties of the tools                                                 *)
(***************************************************************************)

\* The row holds a birth date and a geocoded birth location.
BirthDataPresent(user) ==
    /\ user.birth_date # NoneV
    /\ user.birth_latitude # NoneV
    /\ user.birth_longitude # NoneV

\* C5: a tool that requires the natal chart returns the error string and does not
\* call the chart engine when the calling user has no natal chart, and returns its
\* computed result once the user's birth date and birth location are both present
\* (the engine not failing in the tool).
C5_ChartGating ==
    (last.op \in ChartTools /\ last.user \in Users) =>
        /\ db[last.user].natal_chart_data = <<>> =>
               (last.out = ChartUnavailable /\ ~last.engine_called)
        /\ (BirthDataPresent(db[last.user]) /\ last.engine_ok) => last.out = "result"

\* The first half of C5 alone: without a chart, the error string and no engine call.
C5_ErrorWithoutChart ==
    (last.op \in ChartTools /\ last.user \in Users
        /\ db[last.user].natal_chart_data = <<>>) =>
        (last.out = ChartUnavailable /\ ~last.engine_called)

\* update_user_profile has just stored a birth-data field and the engine did not fail.
BirthFieldStored ==
    /\ last.op = "update_user_profile"
    /\ last.field \in {"birth_date", "birth_time", "birth_city"}
    /\ last.stored
    /\ last.engine_ok

\* C6: after a successful update_user_profile call on birth_date, birth_time or
\* birth_city, if the row holds a birth date and a geocoded birth location (whatever
\* the latitude and longitude, 0 included) and the engine did not fail, the natal
\* chart is stored in the row and available to the tools in the context.
C6_ChartStoredWhenComplete ==
    (BirthFieldStored /\ BirthDataPresent(db[last.user])) =>
        /\ db[last.user].natal_chart_data # <<>>
        /\ _user_context.natal_chart # <<>>

\* C7: in every reachable state a stored natal chart is the chart computed from the
\* birth date, birth time and birth location the row holds now.
C7_ChartMatchesBirthData ==
    \A u \in Users :
        db[u].natal_chart_data # <<>> => db[u].natal_chart_data = chart_of(db[u])

\* The flag of the onboarding state that stands for a field of update_user_profile.
has(state, field) ==
    CASE field = "name" -> state.has_name
      [] field = "gender" -> state.has_gender
      [] field = "birth_date" -> state.has_birth_date
      [] field = "birth_time" -> state.has_birth_time
      [] field = "birth_city" -> state.has_birth_location
      [] field = "current_city" -> state.has_current_location
      [] OTHER -> TRUE

RequiredFields == {"name", "gender", "birth_date", "birth_city"}
OptionalFields == {"birth_time", "current_city"}

StoredOf(u, fields) == {f \in fields : <<u, f>> \in stored}

InSeq(x, seq) == \E i \in DOMAIN seq : seq[i] = x

\* C8: after update_user_profile has stored a field for a user, a later
\* get_onboarding_status call for that user reports the field as provided: its flag
\* is set, it is not listed as missing, the percentage counts it, and a user with
\* name, gender, birth date and birth location stored is reported complete.
C8_StatusReflectsStored ==
    (last.op = "get_onboarding_status" /\ last.user \in Users) =>
        /\ \A f \in StoredOf(last.user, RequiredFields \cup OptionalFields) :
               has(last.state, f)
        /\ ~InSeq("name", last.missing) \/ <<last.user, "name">> \notin stored
        /\ ~InSeq("gender", last.missing) \/ <<last.user, "gender">> \notin stored
        /\ ~InSeq("birth_date", last.missing) \/ <<last.user, "birth_date">> \notin stored
        /\ ~InSeq("birth_location", last.missing)
               \/ <<last.user, "birth_city">> \notin stored
        /\ last.pct >= 20 * Cardinality(StoredOf(last.user, RequiredFields))
                       + 10 * Cardinality(StoredOf(last.user, OptionalFields))
        /\ StoredOf(last.user, RequiredFields) = RequiredFields =>
               last.out = "Profile complete"

(***************************************************************************)
(* OnboardingState (app/services/memory/models.py) as a value: its         *)
(* properties on every combination of the six flags.                       *)
(***************************************************************************)

\* Every OnboardingState: the flags are independent fields of the model.
OnboardingStates ==
    [has_name : BOOLEAN, has_gender : BOOLEAN, has_birth_date : BOOLEAN,
     has_birth_time : BOOLEAN, has_birth_location : BOOLEAN,
     has_current_location : BOOLEAN]

FlagNames == DOMAIN NoReport

\* What a caller reads from a state (tools.py 548-566, cli_agent.py 150-154, 276-278).
properties(op, flag, state) ==
    [Op(op, NoneV) EXCEPT
        !.field = flag,
        !.state = state,
        !.complete = is_complete(state),
        !.pct = completion_percentage(state),
        !.missing = missing_required(state),
        !.next_question = next_question(state),
        !.prompt = get_friendly_prompt(state)]

\* get_onboarding_state builds the state and the caller reads its properties.
read_properties ==
    /\ last.op = "init"
    /\ last' = properties("OnboardingState", NoneV, last.state)
    /\ UNCHANGED <<db, _user_context, profiles, stored, execVars, turnVars, otherVars>>

\* The user provides one more field: the next state built has that flag set too.
provide(flag) ==
    /\ last.op # "init"
    /\ ~last.state[flag]
    /\ last' = properties("provide", flag, [last.state EXCEPT ![flag] = TRUE])
    /\ UNCHANGED <<db, _user_context, profiles, stored, execVars, turnVars, otherVars>>

FlagsInit ==
    /\ ExecIdle /\ TurnsIdle /\ OthersIdle
    /\ db = [u \in Users |-> NoRow]
    /\ _user_context = NoContext
    /\ profiles = [u \in Users |-> NoProfile]
    /\ stored = {}
    /\ \E state \in OnboardingStates : last = [Op("init", NoneV) EXCEPT !.state = state]

FlagsNext ==
    \/ read_properties
    \/ \E flag \in FlagNames : provide(flag)

SpecFlags == FlagsInit /\ [][FlagsNext]_vars

\* The properties of a state have been read.
Read == last.op \in {"OnboardingState", "provide"}

RequiredFlags == {"has_name", "has_gender", "has_birth_date", "has_birth_location"}
OptionalFlags == {"has_birth_time", "has_current_location"}
FlagsSet(state, flags) == {f \in flags : state[f]}

\* C24: on every combination of the six flags is_complete is true exactly when
\* has_name, has_gender, has_birth_date and has_birth_location are all true, which
\* is exactly when missing_required is empty; has_birth_time and
\* has_current_location never change it.
C24_CompleteIffRequiredFlags ==
    /\ [](Read =>
             /\ last.complete <=> FlagsSet(last.state, RequiredFlags) = RequiredFlags
             /\ last.complete <=> last.missing = <<>>)
    /\ [][(Read /\ last'.op = "provide" /\ last'.field \in OptionalFlags)
              => last'.complete = last.complete]_vars

C24_Witness ==
    /\ last.op = "provide"
    /\ last.field = "has_birth_location"
    /\ last.complete
    /\ last.missing = <<>>
    /\ FlagsSet(last.state, OptionalFlags) = {}

\* C25: completion_percentage is 20 for each required flag set plus 10 for each
\* optional flag set: an integer from 0 to 100, 100 exactly when all six flags are
\* set, and it never decreases when a flag goes from false to true.
C25_PercentageOfFlags ==
    /\ [](Read =>
             /\ last.pct = 20 * Cardinality(FlagsSet(last.state, RequiredFlags))
                           + 10 * Cardinality(FlagsSet(last.state, OptionalFlags))
             /\ last.pct \in 0..100
             /\ last.pct = 100 <=> FlagsSet(last.state, FlagNames) = FlagNames)
    /\ [][(Read /\ last'.op = "provide") => last'.pct >= last.pct]_vars

C25_Witness ==
    /\ last.op = "provide"
    /\ last.pct = 100
    /\ FlagsSet(last.state, FlagNames) = FlagNames

\* The order of the questions and the flag each one is about.
QuestionOrder ==
    <<"name", "gender", "birth_date", "birth_location", "birth_time", "current_location">>
FlagOf ==
    [name |-> "has_name", gender |-> "has_gender", birth_date |-> "has_birth_date",
     birth_location |-> "has_birth_location", birth_time |-> "has_birth_time",
     current_location |-> "has_current_location"]
Unanswered(state) == {i \in DOMAIN QuestionOrder : ~state[FlagOf[QuestionOrder[i]]]}

\* C26: next_question is the first field in the order name, gender, birth_date,
\* birth_location, birth_time, current_location whose flag is false, and None exactly
\* when all six flags are true; get_friendly_prompt returns a prompt exactly when
\* next_question is not None.
C26_NextQuestionIsFirstUnanswered ==
    Read =>
        /\ last.next_question = NoneV <=> Unanswered(last.state) = {}
        /\ \A i \in Unanswered(last.state) :
               (\A k \in Unanswered(last.state) : i <= k) =>
                   last.next_question = QuestionOrder[i]
        /\ last.prompt # NoneV <=> last.next_question # NoneV

C26_Witness ==
    /\ Read
    /\ last.state.has_birth_location
    /\ Unanswered(last.state) = {5, 6}
    /\ last.next_question = "birth_time"
    /\ last.prompt = prompts.birth_time

(***************************************************************************)
(* The websocket chat route (app/api/routes/websocket.py) and the graph    *)
(* agent (app/agents/graph_agent.py).  Each connection runs its own        *)
(* message loop as a coroutine; the loops interleave where they await.     *)
(* There is one astrology_graph_agent and one _user_context in the         *)
(* process.  build_graph stores the profile dict it is given both in       *)
(* _user_context["profile"] and in self.user_profile, so the two are one   *)
(* object: self.user_profile is read here as _user_context.profile.        *)
(***************************************************************************)

\* The name a user gives in conversation.
NameOf == [u \in Users |-> IF u = "A" THEN "Ann" ELSE "Bob"]

\* The tool calls the model's reply may request: anything for connection a1, one
\* profile update for the other connections.
TurnCalls(c) ==
    IF c = "a1"
    THEN {<<>>, <<"update_user_profile">>,
          <<"update_user_profile", "get_current_transits">>,
          <<"get_current_transits", "update_user_profile">>}
    ELSE {<<"update_user_profile">>}

\* `chat_histories[user_id][-10:]`, on the length of the list
trim(n) == IF n > history_limit THEN history_limit ELSE n

\* Lines 242-267: a message arrives, is appended to the user's history, the history
\* is trimmed, and the loop awaits the send of the typing indicator.
receive(c) ==
    /\ turns[c].pc = "idle"
    /\ received < MaxMessages
    /\ received' = received + 1
    /\ chat_histories' = [chat_histories EXCEPT ![user_of[c]] = trim(@ + 1)]
    /\ turns' = [turns EXCEPT ![c].pc = "typing"]
    /\ UNCHANGED <<execVars, toolVars, otherVars>>

\* Lines 307-310: the graph's input is `chat_histories[user_id] + [HumanMessage(content)]`,
\* the history of n messages followed by the message of this turn once more.
handed(n) == n + 1

\* Lines 270-319 and use_tools_node up to its await: the row is reloaded, build_graph
\* sets the context, the system prompt is built from self.user_profile and the model
\* is called with the tools bound.
build_graph(c) ==
    LET user_id == user_of[c]
        fresh_user == db[user_id]
    IN  /\ turns[c].pc = "typing"
        /\ _user_context' = [user_id |-> user_id,
                             natal_chart |-> fresh_user.natal_chart_data,
                             profile |-> profile_dict(fresh_user)]
        /\ turns' = [turns EXCEPT ![c].pc = "llm_tools",
                                  ![c].used = {profile_dict(fresh_user).id},
                                  ![c].prompt = prompt_of(profile_dict(fresh_user),
                                                          fresh_user.natal_chart_data),
                                  ![c].row = stored_values(db, user_id)]
        /\ UNCHANGED <<db, profiles, last, stored, execVars, chat_histories, received, otherVars>>

\* The model's reply arrives with its tool_calls; ToolNode.ainvoke starts them.
llm_tools_return(c, calls) ==
    /\ turns[c].pc = "llm_tools"
    /\ turns' = [turns EXCEPT ![c].pc = "tools", ![c].calls = calls,
                              ![c].results = [i \in 1..Len(calls) |-> NoneV]]
    /\ UNCHANGED <<execVars, toolVars, chat_histories, received, otherVars>>

\* One requested call runs, against the context as it is at that moment.  The calls
\* of one reply are run with asyncio.gather and finish in any order.
exec_tool(c, i) ==
    LET name == turns[c].calls[i]
        isUpdate == name = "update_user_profile"
    IN  /\ turns[c].pc = "tools"
        /\ i \in 1..Len(turns[c].calls)
        /\ \A k \in DOMAIN turns[c].ran : turns[c].ran[k] # i
        /\ \E r \in {IF isUpdate
                     THEN update_user_profile_run(_user_context, db, "name",
                                                  NameOf[user_of[c]], FALSE, TRUE, TRUE)
                     ELSE Ret(db, _user_context,
                              chart_tool_run(_user_context, name, TRUE).out, FALSE, TRUE)} :
               /\ db' = r.db
               /\ _user_context' = r.ctx
               /\ turns' = [turns EXCEPT ![c].ran = Append(@, i),
                                         ![c].results[i] = r.out,
                                         ![c].used = @ \cup {_user_context.user_id}]
        /\ UNCHANGED <<profiles, last, stored, execVars, chat_histories, received, otherVars>>

\* The tool messages listed in the order the calls finished.
outputs_as_completed(calls, ran, results) ==
    [k \in 1..Len(ran) |-> [call |-> ran[k], content |-> results[ran[k]]]]

\* ToolNode's result: one tool message per requested call, in the order of the calls.
tool_node_outputs(calls, ran, results) ==
    [i \in 1..Len(calls) |-> [call |-> i, content |-> results[i]]]

\* The model's reply as a message; call 0 tells it from the tool messages.
response == [call |-> 0, content |-> "tool_calls"]

\* use_tools_node returns `[response] + tool_outputs` once every call has finished;
\* add_messages appends them to the state's messages (turns[c].messages is the part
\* appended).  generate_response_node then builds its prompt from self.user_profile
\* and calls the model.
generate_response_node(c) ==
    /\ turns[c].pc = "tools"
    /\ Len(turns[c].ran) = Len(turns[c].calls)
    /\ turns' = [turns EXCEPT
                    ![c].pc = "llm_final",
                    ![c].messages = <<response>> \o
                        tool_node_outputs(turns[c].calls, turns[c].ran, turns[c].results),
                    ![c].used = @ \cup {_user_context.profile.id},
                    ![c].prompt = prompt_of(_user_context.profile,
                                            _user_context.natal_chart),
                    ![c].row = stored_values(db, user_of[c])]
    /\ UNCHANGED <<execVars, toolVars, chat_histories, received, otherVars>>

\* Lines 359-377: the answer is sent and the message and the answer are appended to
\* the user's history; the loop goes back to receive_text.
respond(c) ==
    /\ turns[c].pc = "llm_final"
    /\ chat_histories' = [chat_histories EXCEPT ![user_of[c]] = @ + 2]
    /\ turns' = [turns EXCEPT ![c] = IdleTurn]
    /\ UNCHANGED <<execVars, toolVars, received, otherVars>>

\* Both users are registered and no connection has received a message.
TurnsInit ==
    /\ ExecIdle
    /\ OthersIdle
    /\ TurnsIdle
    /\ db = [u \in Users |-> NewRow(u)]
    /\ _user_context = NoContext
    /\ profiles = [u \in Users |-> NoProfile]
    /\ last = Op("init", NoneV)
    /\ stored = {}

TurnsNext ==
    \/ \E c \in Conns : receive(c)
    \/ \E c \in Conns : build_graph(c)
    \/ \E c \in Conns : \E calls \in TurnCalls(c) : llm_tools_return(c, calls)
    \/ \E c \in Conns : \E i \in 1..Len(turns[c].calls) : exec_tool(c, i)
    \/ \E c \in Conns : generate_response_node(c)
    \/ \E c \in Conns : respond(c)

SpecTurns == TurnsInit /\ [][TurnsNext]_vars

(***************************************************************************)
(* Properties of the turns                                                 *)
(***************************************************************************)

\* The connection is between receiving a message and sending its answer.
InFlight(c) == turns[c].pc # "idle"

\* C1: whatever the interleaving of the turns of two users, the tool calls of a turn
\* read and write only the context of the turn's own user and its system prompts are
\* built only from that user's profile: a turn uses no other user's id, profile or
\* chart.
C1_TurnUsesOwnUserOnly ==
    \A c \in Conns : turns[c].used \subseteq {user_of[c]}

\* C9: for every user at most one turn is being processed at any moment, also when
\* the user has more than one open websocket connection.
C9_OneTurnPerUser ==
    \A c1, c2 \in Conns :
        (c1 # c2 /\ user_of[c1] = user_of[c2]) => ~(InFlight(c1) /\ InFlight(c2))

\* How many times call i of connection c's turn has run.
TimesRun(c, i) == Cardinality({k \in DOMAIN turns[c].ran : turns[c].ran[k] = i})

\* C10: in every turn each requested tool call runs exactly once (never twice while
\* the calls are running), and when the model is invoked for the final answer every
\* call has run and finished and the history handed on is the model's reply followed
\* by one tool result per call, in the order the calls were requested.
C10_ToolsOnceInOrderBeforeAnswer ==
    \A c \in Conns :
        /\ \A i \in 1..Len(turns[c].calls) : TimesRun(c, i) <= 1
        /\ turns[c].pc = "llm_final" =>
               /\ \A i \in 1..Len(turns[c].calls) :
                      /\ TimesRun(c, i) = 1
                      /\ turns[c].results[i] # NoneV
                      /\ turns[c].messages[i + 1] =
                             [call |-> i, content |-> turns[c].results[i]]
               /\ Len(turns[c].messages) = Len(turns[c].calls) + 1
               /\ turns[c].messages[1] = response

\* A turn whose two calls finished in the opposite order of the request, with two
\* different results, now waiting for the final answer.
C10_Witness ==
    \E c \in Conns :
        /\ turns[c].pc = "llm_final"
        /\ turns[c].ran = <<2, 1>>
        /\ turns[c].results[1] # turns[c].results[2]

\* C22: the profile and the natal chart from which a turn's system context is built
\* are the values stored for the turn's user, so that the changes of earlier tool
\* calls are visible and nothing cached from before them is used: every prompt of a
\* turn was built from the profile and chart stored for the user at that moment.
C22_ContextFromStoredValues ==
    \A c \in Conns : turns[c].prompt = turns[c].row

\* C23: the message list handed to the graph for prompt construction never holds
\* more than history_limit messages, however long the conversation is.
C23_HandedMessagesBounded ==
    [][\A c \in Conns : build_graph(c) => handed(chat_histories[user_of[c]]) <= history_limit]_vars

(***************************************************************************)
(* The tool loop of a turn: the graph of AstrologyGraphAgent.build_graph   *)
(* and the AgentExecutor of AstrologyAgent.create_agent_executor.  The     *)
(* language model is free: every reply may request tool calls.             *)
(***************************************************************************)

\* The conditional edge after route_query: should_use_tools returns next_action and
\* the mapping gives the node.
edge_after_route(next_action) ==
    IF next_action = "use_tools" THEN "use_tools" ELSE "generate_response"

\* The user messages a run of the graph is started with.
GraphMessages == {"hello", "what are my transits this week?"}

\* A router that answers greetings without the tools.
route_query_node_by_keyword(last_message) ==
    IF last_message = "hello" THEN "respond_directly" ELSE "use_tools"

\* route_query_node: `next_action = "use_tools"`, whatever the last message is.
route_query_node(last_message) == "use_tools"

\* astream_events / ainvoke with the user's message; `workflow.add_edge(START,
\* "route_query")`
graph_start(message) ==
    /\ graph_run.node = "START"
    /\ graph_run' = [graph_run EXCEPT !.node = "route_query", !.message = message,
                                      !.path = Append(@, "route_query")]
    /\ UNCHANGED <<execVars, toolVars, turnVars, laterVars, executor_run>>

\* route_query_node always decides "use_tools"; the edge follows the decision.
graph_route_query_node ==
    /\ graph_run.node = "route_query"
    /\ \E next_action \in {route_query_node(graph_run.message)} :
           graph_run' = [graph_run EXCEPT
                            !.next_action = next_action,
                            !.node = edge_after_route(next_action),
                            !.path = Append(@, edge_after_route(next_action))]
    /\ UNCHANGED <<execVars, toolVars, turnVars, laterVars, executor_run>>

\* use_tools_node: the reply of the model with the tools bound requests n calls;
\* with n > 0 a ToolNode runs them (one tool round).
graph_use_tools_node(n) ==
    /\ graph_run.node = "use_tools"
    /\ graph_run.tool_rounds < RoundCap
    /\ graph_run' = IF n > 0
                    THEN [graph_run EXCEPT !.node = "tools", !.requested = n, !.run = 0,
                                           !.tool_rounds = @ + 1]
                    ELSE [graph_run EXCEPT !.node = "generate_response",
                                           !.path = Append(@, "generate_response")]
    /\ UNCHANGED <<execVars, toolVars, turnVars, laterVars, executor_run>>

\* One of the requested calls runs.
graph_tool_run ==
    /\ graph_run.node = "tools"
    /\ graph_run.run < graph_run.requested
    /\ graph_run' = [graph_run EXCEPT !.run = @ + 1]
    /\ UNCHANGED <<execVars, toolVars, turnVars, laterVars, executor_run>>

\* `workflow.add_edge("use_tools", "generate_response")`
graph_tools_done ==
    /\ graph_run.node = "tools"
    /\ graph_run.run = graph_run.requested
    /\ graph_run' = [graph_run EXCEPT !.node = "generate_response",
                                      !.path = Append(@, "generate_response"),
                                      !.requested = 0, !.run = 0]
    /\ UNCHANGED <<execVars, toolVars, turnVars, laterVars, executor_run>>

\* generate_response_node calls self.llm, which has no tools bound: whatever the
\* model would like, the reply is text; `workflow.add_edge("generate_response", END)`.
graph_generate_response_node ==
    /\ graph_run.node = "generate_response"
    /\ graph_run' = [graph_run EXCEPT !.node = "END", !.response = "text",
                                      !.path = Append(@, "END")]
    /\ UNCHANGED <<execVars, toolVars, turnVars, laterVars, executor_run>>

should_continue_always(iterations) == TRUE

\* AgentExecutor._should_continue with max_iterations = 3 and no time limit
should_continue(iterations) == iterations < max_iterations

\* The head of the executor's loop: another iteration, or the forced stop with the
\* fixed output "Agent stopped due to iteration limit or time limit."
executor_loop ==
    /\ executor_run.at = "loop"
    /\ executor_run' = IF should_continue(executor_run.iterations)
                       THEN [executor_run EXCEPT !.at = "plan"]
                       ELSE [executor_run EXCEPT !.at = "done", !.output = "Agent stopped"]
    /\ UNCHANGED <<execVars, toolVars, turnVars, laterVars, graph_run>>

\* The agent's reply: no tool call is an AgentFinish, which ends the run with the
\* reply's text; n > 0 calls are run by the executor (one tool round).
executor_plan(n) ==
    /\ executor_run.at = "plan"
    /\ executor_run.tool_rounds < RoundCap
    /\ executor_run' = IF n > 0
                       THEN [executor_run EXCEPT !.at = "tools", !.requested = n,
                                                 !.run = 0, !.tool_rounds = @ + 1]
                       ELSE [executor_run EXCEPT !.at = "done", !.output = "text"]
    /\ UNCHANGED <<execVars, toolVars, turnVars, laterVars, graph_run>>

executor_tool_run ==
    /\ executor_run.at = "tools"
    /\ executor_run.run < executor_run.requested
    /\ executor_run' = [executor_run EXCEPT !.run = @ + 1]
    /\ UNCHANGED <<execVars, toolVars, turnVars, laterVars, graph_run>>

\* The observations are added to the scratchpad and `iterations += 1`.
executor_step_done ==
    /\ executor_run.at = "tools"
    /\ executor_run.run = executor_run.requested
    /\ executor_run' = [executor_run EXCEPT !.at = "loop", !.iterations = @ + 1,
                                            !.requested = 0, !.run = 0]
    /\ UNCHANGED <<execVars, toolVars, turnVars, laterVars, graph_run>>

LoopInit == ExecIdle /\ ToolsIdle /\ TurnsIdle /\ LoopIdle /\ LaterIdle

LoopNext ==
    \/ \E message \in GraphMessages : graph_start(message)
    \/ graph_route_query_node
    \/ \E n \in 0..MaxRequested : graph_use_tools_node(n)
    \/ graph_tool_run
    \/ graph_tools_done
    \/ graph_generate_response_node
    \/ executor_loop
    \/ \E n \in 0..MaxRequested : executor_plan(n)
    \/ executor_tool_run
    \/ executor_step_done

\* The event loop resumes a coroutine whose await has completed, and the model and
\* the tools answer: whatever step is possible is eventually taken.
SpecLoop == LoopInit /\ [][LoopNext]_vars /\ WF_vars(LoopNext)

\* C11: whatever the model replies, also when it requests tools in every reply, a
\* turn runs at most one tool round in the graph agent and at most max_iterations (3)
\* in AstrologyAgent, and the turn ends with a response.
C11_ToolRoundsBounded ==
    /\ [](graph_run.tool_rounds <= 1 /\ executor_run.tool_rounds <= max_iterations)
    /\ <>(/\ graph_run.node = "END" /\ graph_run.response # NoneV
          /\ executor_run.at = "done" /\ executor_run.output # NoneV)

\* Both runs over after the model asked for tools in every reply it could.
C11_Witness ==
    /\ graph_run.node = "END" /\ graph_run.tool_rounds = 1
    /\ executor_run.at = "done" /\ executor_run.tool_rounds = max_iterations
    /\ executor_run.output = "Agent stopped"

\* The nodes of a turn, in order.
Route == <<"route_query", "use_tools", "generate_response", "END">>

MaxMemories == 3         \* memories stored in one run

\* settings.CHROMA_COLLECTION_PREFIX
CHROMA_COLLECTION_PREFIX == <<"u", "s", "e", "r", "_">>

\* search_memories(limit=5); the model keeps at most MaxMemories documents
search_limit == 5

\* Memory contents, as the words `content.lower().split()` sees.
Contents == {<<"likes", "jazz">>, <<"likes", "Jazz", "music">>}

lower(w) == IF w = "Jazz" THEN "jazz" ELSE w

isalnum(c) == c \in {"u", "s", "e", "r", "1", "2", "a", "t", "o", "l", "g", "y", "A", "B"}

\* ChromaService.get_user_collection_name
get_user_collection_name(user_id) ==
    LET sanitized_id == [i \in DOMAIN user_id |->
                            IF isalnum(user_id[i]) \/ user_id[i] = "_"
                            THEN user_id[i] ELSE "_"]
    IN  CHROMA_COLLECTION_PREFIX \o sanitized_id
            \o <<"_", "a", "s", "t", "r", "o", "l", "o", "g", "y">>

\* uuid.uuid4(): an id no earlier call has drawn
uuid4(n) == n + 1

\* Memory(id=..., user_id=user_id, ..., content=content)
Memory(id, user_id, content) ==
    [id |-> id, user_id |-> user_id, content |-> content]

\* ChromaService.add_documents for one document: the metadata's user_id is overwritten
\* with the caller's.
add_documents(chr, user_id, document, metadata, id) ==
    chr \cup {[collection |-> get_user_collection_name(user_id),
               id |-> id,
               document |-> document,
               metadata |-> [metadata EXCEPT !.user_id = user_id]]}

\* MemoryService._store_memory_vector: a failure of Chroma or of the embedding call is
\* logged and swallowed.
_store_memory_vector(chr, memory, chroma_up) ==
    IF chroma_up
    THEN add_documents(chr, memory.user_id, memory.content,
                       [memory_id |-> memory.id, user_id |-> memory.user_id], memory.id)
    ELSE chr

\* A store that is not keyed by user: the memory joins every user's list and every
\* user's index.
store_memory_run_shared(mems, chr, n, user_id, content, chroma_up) ==
    LET memory == Memory(uuid4(n), user_id, content)
    IN  [memories |-> [u \in DOMAIN mems |-> Append(mems[u], memory)],
         chroma |-> chr \cup
                    {[collection |-> get_user_collection_name(u), id |-> memory.id,
                      document |-> content,
                      metadata |-> [memory_id |-> memory.id, user_id |-> u]]
                        : u \in DOMAIN mems},
         next_id |-> uuid4(n),
         memory |-> memory]

\* MemoryService.store_memory: the new memories, index, id counter and the Memory
\* returned.
store_memory_run(mems, chr, n, user_id, content, chroma_up) ==
    LET memory == Memory(uuid4(n), user_id, content)
    IN  [memories |-> [mems EXCEPT ![user_id] = Append(@, memory)],
         chroma |-> _store_memory_vector(chr, memory, chroma_up),
         next_id |-> uuid4(n),
         memory |-> memory]

\* The documents collection.query(where={"user_id": user_id}) chooses from.
query_candidates(chr, user_id) ==
    {d \in chr : /\ d.collection = get_user_collection_name(user_id)
                 /\ d.metadata.user_id = user_id}

\* ChromaService.query: the n_results nearest documents that also pass
\* _filter_by_similarity; which ones depends on the embeddings.
query(chr, user_id, n_results) ==
    {h \in SUBSET query_candidates(chr, user_id) : Cardinality(h) <= n_results}

\* A lookup that finds every memory that was ever stored.
_get_memory_ever_stored(mems, user_id, memory_id) ==
    LET found == {m \in returned : m.user_id = user_id /\ m.id = memory_id}
    IN  IF found = {} THEN <<>> ELSE <<CHOOSE m \in found : TRUE>>

\* MemoryService._get_memory_by_id: <<>> for None
_get_memory_by_id(mems, user_id, memory_id) ==
    LET found == {i \in DOMAIN mems[user_id] : mems[user_id][i].id = memory_id}
    IN  IF found = {} THEN <<>>
        ELSE <<mems[user_id][CHOOSE i \in found : \A j \in found : i <= j]>>

\* MemoryService.search_memories for the documents the query returned
search_results(mems, user_id, hits) ==
    {m \in {_get_memory_by_id(mems, user_id, d.metadata.memory_id) : d \in hits}
        : m # <<>>}

words(content) == {lower(content[i]) : i \in DOMAIN content}

\* The overlap taken as a share of the topic's words instead of the memory's.
is_duplicate_of_topic_words(content, topic) ==
    LET content_words == words(content)
        topic_words == words(topic)
        denominator == IF Cardinality(topic_words) > 1
                       THEN Cardinality(topic_words) ELSE 1
    IN  10 * Cardinality(content_words \cap topic_words) > 7 * denominator

\* `overlap > 0.7` of consolidate_memories, in tenths
is_duplicate(content, topic) ==
    LET content_words == words(content)
        topic_words == words(topic)
        denominator == IF Cardinality(content_words) > 1
                       THEN Cardinality(content_words) ELSE 1
    IN  10 * Cardinality(content_words \cap topic_words) > 7 * denominator

RECURSIVE consolidate_from(_, _, _)
\* The loop of consolidate_memories over the copied list: i is the position in the
\* copy, kept the memories that stay, seen_topics the contents seen, consolidated the
\* removals counted.
consolidate_from(copy, i, acc) ==
    IF i > Len(copy) THEN acc
    ELSE IF \E topic \in acc.seen_topics : is_duplicate(copy[i].content, topic)
         THEN consolidate_from(copy, i + 1, [acc EXCEPT !.consolidated = @ + 1])
         ELSE consolidate_from(copy, i + 1,
                  [acc EXCEPT !.kept = Append(@, copy[i]),
                              !.seen_topics = @ \cup {copy[i].content}])

\* A consolidation that stops at the first duplicate it removes.
consolidate_memories_run_one_at_a_time(mems, user_id) ==
    IF Len(mems[user_id]) < 2 THEN [memories |-> mems, consolidated |-> 0]
    ELSE LET acc == consolidate_from(mems[user_id], 1,
                        [kept |-> <<>>, seen_topics |-> {}, consolidated |-> 0])
             removed == {i \in DOMAIN mems[user_id] :
                            \A k \in DOMAIN acc.kept : acc.kept[k] # mems[user_id][i]}
             first == CHOOSE i \in removed : \A j \in removed : i <= j
         IN  IF removed = {} THEN [memories |-> mems, consolidated |-> 0]
             ELSE [memories |-> [mems EXCEPT ![user_id] =
                                    SubSeq(@, 1, first - 1) \o SubSeq(@, first + 1, Len(@))],
                   consolidated |-> 1]

\* MemoryService.consolidate_memories (memory_type None): the lists afterwards and the
\* number returned.
consolidate_memories_run(mems, user_id) ==
    IF Len(mems[user_id]) < 2 THEN [memories |-> mems, consolidated |-> 0]
    ELSE LET acc == consolidate_from(mems[user_id], 1,
                        [kept |-> <<>>, seen_topics |-> {}, consolidated |-> 0])
         IN  [memories |-> [mems EXCEPT ![user_id] = acc.kept],
              consolidated |-> acc.consolidated]

store_memory(user_id, content, chroma_up) ==
    /\ next_id < MaxMemories
    /\ \E r \in {store_memory_run(memories, chroma, next_id, user_id, content, chroma_up)} :
        /\ memories' = r.memories
        /\ chroma' = r.chroma
        /\ next_id' = r.next_id
        /\ returned' = returned \cup {r.memory}
        /\ mem_last' = [NoMemOp EXCEPT !.op = "store_memory", !.user_id = user_id,
                                       !.memory = <<r.memory>>]
    /\ UNCHANGED <<execVars, toolVars, turnVars, loopVars, envVars, sessionVars, connVars,
                   summaries>>

\* MemoryService._handle_extraction_result for a result with one extracted memory and,
\* possibly, a summary.
_handle_extraction_result(user_id, content, has_summary, chroma_up) ==
    /\ next_id < MaxMemories
    /\ \E r \in {store_memory_run(memories, chroma, next_id, user_id, content, chroma_up)} :
        /\ memories' = r.memories
        /\ chroma' = r.chroma
        /\ next_id' = r.next_id
        /\ returned' = returned \cup {r.memory}
    /\ summaries' = IF has_summary THEN [summaries EXCEPT ![user_id] = @ + 1]
                    ELSE summaries
    /\ mem_last' = [NoMemOp EXCEPT !.op = "_handle_extraction_result", !.user_id = user_id]
    /\ UNCHANGED <<execVars, toolVars, turnVars, loopVars, envVars, sessionVars, connVars>>

consolidate_memories(user_id) ==
    /\ \E r \in {consolidate_memories_run(memories, user_id)} :
        /\ memories' = r.memories
        /\ mem_last' = [NoMemOp EXCEPT !.op = "consolidate_memories", !.user_id = user_id,
                                       !.consolidated = r.consolidated]
    /\ UNCHANGED <<execVars, toolVars, turnVars, loopVars, envVars, sessionVars, connVars,
                   summaries, chroma, next_id, returned>>

\* MemoryService.search_memories: [] when the query raises.
search_memories(user_id, limit, chroma_up) ==
    /\ \E hits \in (IF chroma_up THEN query(chroma, user_id, limit) ELSE {{}}) :
        mem_last' = [NoMemOp EXCEPT !.op = "search_memories", !.user_id = user_id,
                                   !.limit = limit,
                                   !.results = search_results(memories, user_id, hits)]
    /\ UNCHANGED <<execVars, toolVars, turnVars, loopVars, envVars, sessionVars, connVars,
                   memories, summaries, chroma, next_id, returned>>

MemoryInit == ExecIdle /\ ToolsIdle /\ TurnsIdle /\ LoopIdle /\ LaterIdle

\* The calls tried: the two users whose collections share a name store every content,
\* with Chroma up and down; the third user stores one memory; one user has extraction
\* results, with and without a summary.
StoreInputs ==
    (({<<"u", "-", "1">>, <<"u", "_", "1">>} \X Contents) \X BOOLEAN)
        \cup {<<<<<<"u", "2">>, <<"likes", "jazz">>>>, TRUE>>}
\* The searches tried: every user with the default limit, and one user asking for a
\* single result.
SearchInputs == (MemUsers \X {search_limit}) \cup {<<<<"u", "2">>, 1>>}
ExtractionInputs ==
    {<<"u", "-", "1">>} \X {<<"likes", "Jazz", "music">>} \X BOOLEAN

MemoryNext ==
    \/ \E i \in StoreInputs : store_memory(i[1][1], i[1][2], i[2])
    \/ \E i \in ExtractionInputs : _handle_extraction_result(i[1], i[2], i[3], TRUE)
    \/ \E user_id \in MemUsers : consolidate_memories(user_id)
    \/ \E i \in SearchInputs, chroma_up \in BOOLEAN : search_memories(i[1], i[2], chroma_up)

SpecMemory == MemoryInit /\ [][MemoryNext]_vars

\* C12: a search by one user never returns a Memory of another user, whatever both
\* users stored, extracted and consolidated before.
C12_SearchReturnsOwnMemoriesOnly ==
    mem_last.op = "search_memories" =>
        \A m \in mem_last.results : m[1].user_id = mem_last.user_id

\* A search of a user returned one of their memories although a user whose
\* collection has the same name has documents there too.
C12_Witness ==
    /\ mem_last.op = "search_memories"
    /\ mem_last.results # {}
    /\ \E d \in chroma :
        /\ d.collection = get_user_collection_name(mem_last.user_id)
        /\ d.metadata.user_id # mem_last.user_id

InList(m) == \E i \in DOMAIN memories[m.user_id] : memories[m.user_id][i] = m
InIndex(m) ==
    \E d \in query_candidates(chroma, m.user_id) : d.metadata.memory_id = m.id

\* C20: every Memory that store_memory has returned is, from then on, in its user's
\* memory list and in its user's search index.
C20_StoredMemoryQueryable ==
    \A m \in returned : InList(m) /\ InIndex(m)

\* More than 70% of the distinct words of memory m are words of memory t.
MostWordsIn(m, t) ==
    10 * Cardinality(words(m.content) \cap words(t.content))
        > 7 * Cardinality(words(m.content))

\* The positions of the list `before` whose memory is still in the list `after`.
KeptAt(before, after) ==
    {i \in DOMAIN before : \E k \in DOMAIN after : after[k] = before[i]}

\* C27: when consolidate_memories(u) returns n, exactly n memories have left u's
\* list; every removed memory has more than 70% of its distinct words in the content
\* of a kept memory that precedes it, and no kept memory has more than 70% of its
\* distinct words in the content of an earlier kept memory.
C27_ConsolidationRemovesDuplicates ==
    [][mem_last'.op = "consolidate_memories" =>
        LET before == memories[mem_last'.user_id]
            after == memories'[mem_last'.user_id]
            kept == KeptAt(before, after)
        IN  /\ Len(before) - Len(after) = mem_last'.consolidated
            /\ Cardinality(kept) = Len(after)
            /\ \A i \in DOMAIN before \ kept :
                   \E j \in kept : j < i /\ MostWordsIn(before[i], before[j])
            /\ \A i, k \in DOMAIN after : i < k => ~MostWordsIn(after[k], after[i])]_vars

\* A call removed a memory and kept two, one of them sharing words with the other.
C27_Witness ==
    /\ mem_last.op = "consolidate_memories"
    /\ mem_last.consolidated = 1
    /\ Len(memories[mem_last.user_id]) = 2
    /\ words(memories[mem_last.user_id][1].content)
           \cap words(memories[mem_last.user_id][2].content) # {}

(***************************************************************************)
(* Properties of update_user_profile                                       *)
(***************************************************************************)

\* The last two operations were update_user_profile with the same arguments, the
\* first stored its value, and the chart engine behaved alike in both.
SameCallTwice ==
    /\ last.op = "update_user_profile"
    /\ last.stored
    /\ last'.op = "update_user_profile"
    /\ last'.repeated
    /\ last'.engine_ok = last.engine_ok

LookupErrors ==
    {"Could not find coordinates", "Error looking up location",
     "Error: No user context available."}

\* A call of update_user_profile with needs_geocoding set for a city field whose
\* lookup finds nothing or fails.
LookupFails(c) ==
    /\ c.op = "update_user_profile"
    /\ c.needs_geocoding
    /\ c.field \in {"birth_city", "current_city"}
    /\ (~c.geocoder_up \/ ~geocode(c.value).found)

\* C14: when update_user_profile is called with needs_geocoding for birth_city or
\* current_city and the geocoder finds nothing or fails, it returns an error string
\* and the stored profile, the natal chart and the tool context stay as they were.
C14_FailedLookupChangesNothing ==
    [][LookupFails(last')
          => (/\ last'.out \in LookupErrors
              /\ db' = db
              /\ profiles' = profiles
              /\ _user_context' = _user_context)]_vars

\* A lookup has just failed for a user whose row holds a birth location and a chart.
C14_Witness ==
    /\ last.op = "update_user_profile"
    /\ last.needs_geocoding
    /\ last.field = "birth_city"
    /\ last.out \in {"Could not find coordinates", "Error looking up location"}
    /\ last.user \in Users
    /\ db[last.user].birth_location # NoneV
    /\ db[last.user].natal_chart_data # <<>>

\* The texts dateutil cannot parse, among the values tried.
Unparseable == {"sometime"}

\* A call of update_user_profile on birth_date or birth_time, for a user with a row,
\* with a value the parser rejects.
ParseFails(c) ==
    /\ c.op = "update_user_profile"
    /\ c.field \in {"birth_date", "birth_time"}
    /\ c.value \in Unparseable
    /\ c.user \in Users
    /\ db[c.user].exists

NoRecord(c) ==
    /\ c.op = "update_user_profile"
    /\ c.user \in Users
    /\ ~db[c.user].exists

\* C17: update_user_profile for a user id with no profile record returns an explicit
\* error string, creates no record and writes no field, for every field and value.
C17_NoRecordNoWrite ==
    [][NoRecord(last')
          => (/\ last'.out \in LookupErrors \cup {"Error: User not found in database."}
              /\ ~last'.stored
              /\ db' = db
              /\ stored' = stored)]_vars

\* The tool has just refused a geocoded birth city for a user without a row.
C17_Witness ==
    /\ last.op = "update_user_profile"
    /\ last.user \in CliUsers
    /\ ~db[last.user].exists
    /\ last.field = "birth_city"
    /\ last.needs_geocoding
    /\ last.out = "Error: User not found in database."

(***************************************************************************)
(* The tool registry: the memory tools and every tool under missing        *)
(* imports.                                                                *)
(***************************************************************************)

\* search_user_memories: search_memories(..., limit=3)
tool_search_limit == 3

\* The tool store_user_memory: the import of the memory package, which comes before
\* the `try`, then the body.
store_user_memory(content, chroma_up) ==
    LET user_id == _user_context.user_id
    IN  IF "app.services.memory" \notin importable
        THEN /\ last' = [Op("store_user_memory", user_id) EXCEPT !.out = Raised]
             /\ UNCHANGED <<memVars>>
        ELSE IF ~truthy(user_id)
        THEN /\ last' = [Op("store_user_memory", user_id) EXCEPT
                            !.out = "Error: No user context available."]
             /\ UNCHANGED <<memVars>>
        ELSE /\ next_id < MaxMemories
             /\ \E r \in {store_memory_run(memories, chroma, next_id, chars(user_id),
                                           content, chroma_up)} :
                 /\ memories' = r.memories
                 /\ chroma' = r.chroma
                 /\ next_id' = r.next_id
                 /\ returned' = returned \cup {r.memory}
                 /\ mem_last' = [NoMemOp EXCEPT !.op = "store_memory",
                                                !.user_id = chars(user_id),
                                                !.memory = <<r.memory>>]
             /\ last' = [Op("store_user_memory", user_id) EXCEPT !.out = "Memory stored"]
             /\ UNCHANGED summaries

\* The tool search_user_memories, likewise.
search_user_memories(chroma_up) ==
    LET user_id == _user_context.user_id
    IN  IF "app.services.memory" \notin importable
        THEN /\ last' = [Op("search_user_memories", user_id) EXCEPT !.out = Raised]
             /\ UNCHANGED <<memVars>>
        ELSE IF ~truthy(user_id)
        THEN /\ last' = [Op("search_user_memories", user_id) EXCEPT
                            !.out = "No user context available."]
             /\ UNCHANGED <<memVars>>
        ELSE /\ \E hits \in (IF chroma_up
                             THEN query(chroma, chars(user_id), tool_search_limit)
                             ELSE {{}}) :
                 \E results \in {search_results(memories, chars(user_id), hits)} :
                     /\ mem_last' = [NoMemOp EXCEPT !.op = "search_memories",
                                                    !.user_id = chars(user_id),
                                                    !.limit = tool_search_limit,
                                                    !.results = results]
                     /\ last' = [Op("search_user_memories", user_id) EXCEPT
                                    !.out = IF results = {}
                                            THEN "No relevant memories found."
                                            ELSE "Relevant memories:"]
             /\ UNCHANGED <<memories, summaries, chroma, next_id, returned>>

\* A deployment: which of the function-level imports succeed.
RegistryInit ==
    /\ ExecIdle /\ ToolsIdle /\ TurnsIdle /\ LoopIdle /\ MemoryIdle /\ SessionIdle
    /\ ConnIdle
    /\ importable \in SUBSET Imports

\* The calls of update_user_profile tried here.
RegistryInputs ==
    {c \in ToolInputs : /\ c.value \in {"Sarah", "June 15, 1990", "Austin"}
                        /\ c.field \in {"name", "birth_date", "birth_city"}
                        /\ c.needs_geocoding = (c.field = "birth_city")
                        /\ c.geocoder_up}

RegistryNext ==
    \/ \E u \in ToolUsers : register(u)
    \/ \E u \in ToolUsers : set_user_context(u)
    \/ \E c \in RegistryInputs :
           update_user_profile(c.field, c.value, c.needs_geocoding, c.geocoder_up, c.engine_ok)
    \/ \E t \in ChartTools : \E ok \in BOOLEAN : chart_tool(t, ok)
    \/ get_onboarding_status
    \/ \E chroma_up \in BOOLEAN :
           /\ \/ store_user_memory(<<"likes", "jazz">>, chroma_up)
              \/ search_user_memories(chroma_up)
           /\ UNCHANGED <<db, _user_context, profiles, stored, execVars, turnVars,
                          loopVars, envVars, sessionVars, connVars>>

SpecRegistry == RegistryInit /\ [][RegistryNext]_vars

\* C16: every tool of the registry returns a string, whatever its input and whichever
\* collaborator or import fails; no tool call ends with an exception.
C16_ToolsReturnStrings ==
    last.out # Raised

(***************************************************************************)
(* A chat session: the websocket loop over the graph's event stream        *)
(* (app/api/routes/websocket.py) and the command-line chat (cli_agent.py). *)
(***************************************************************************)
MaxTurns == 2            \* turns of one session in one run

WsUser == "A"
CliUser == "B"

\* What the model call of use_tools_node may stream: the content chunks (empty for a
\* chunk that only carries a tool call) and the number of tool calls.
SelectionReplies ==
    {[chunks |-> <<"">>, calls |-> 1],
     [chunks |-> <<"Noted. ">>, calls |-> 1],
     [chunks |-> <<"Hello ", "Sarah">>, calls |-> 0]}

\* What the model call of generate_response_node may stream.
FinalReplies == {<<"Your ", "chart">>, <<"Hello ", "Sarah">>}

RECURSIVE contents(_)
\* The text of the chunks, as `full_response += chunk.content` builds it.
contents(chunks) ==
    IF chunks = <<>> THEN <<>> ELSE <<Head(chunks).content>> \o contents(Tail(chunks))

\* `if chunk and hasattr(chunk, 'content') and chunk.content`: the node the chunk
\* comes from is not looked at.
accepts(source, chunk) == chunk # ""

\* The message loop receives a non-empty message, sends the typing indicator, rebuilds
\* the graph and starts astream_events.
ws_receive ==
    /\ ws.pc = "receive"
    /\ ws.completed < MaxTurns
    /\ ws' = [ws EXCEPT !.pc = "use_tools_node", !.full_response = <<>>,
                        !.stream_started = FALSE, !.sent = <<"typing">>,
                        !.final_output = <<>>, !.failed = ""]
    /\ UNCHANGED <<execVars, toolVars, turnVars, loopVars, memVars, envVars, connVars, cli>>

\* use_tools_node: `await llm_with_tools.ainvoke(tool_messages)` starts streaming.
use_tools_node_call(reply) ==
    /\ ws.pc = "use_tools_node"
    /\ ws' = [ws EXCEPT !.pc = "use_tools", !.source = "use_tools",
                        !.pending = reply.chunks, !.calls = reply.calls]
    /\ UNCHANGED <<execVars, toolVars, turnVars, loopVars, memVars, envVars, connVars, cli>>

\* The branch `elif kind == "on_chat_model_stream"` for the next chunk of the running
\* model call.
on_chat_model_stream ==
    /\ ws.pending # <<>>
    /\ LET chunk == Head(ws.pending)
       IN  ws' = IF accepts(ws.source, chunk)
                 THEN [ws EXCEPT
                          !.pending = Tail(@),
                          !.stream_started = TRUE,
                          !.sent = @ \o (IF ws.stream_started THEN <<>>
                                         ELSE <<"stream_start">>) \o <<chunk>>,
                          !.full_response =
                              Append(@, [from |-> ws.source, content |-> chunk])]
                 ELSE [ws EXCEPT !.pending = Tail(@)]
    /\ UNCHANGED <<execVars, toolVars, turnVars, loopVars, memVars, envVars, connVars, cli>>

\* The branch `if kind == "on_tool_start"`.
on_tool_start ==
    /\ ws.pc = "use_tools" /\ ws.pending = <<>> /\ ws.calls > 0
    /\ ws' = [ws EXCEPT !.pc = "tool", !.sent = Append(@, "tool_call started")]
    /\ UNCHANGED <<execVars, toolVars, turnVars, loopVars, memVars, envVars, connVars, cli>>

\* The branch `elif kind == "on_tool_end"`.  A tool whose work failed has caught the
\* exception and returned an error string (tool_ok = FALSE): the event is the same.
on_tool_end(tool_ok) ==
    /\ ws.pc = "tool"
    /\ ws' = [ws EXCEPT !.pc = "use_tools", !.calls = @ - 1,
                        !.sent = Append(@, "tool_call completed"),
                        !.failed = IF tool_ok THEN @ ELSE "tool execution"]
    /\ UNCHANGED <<execVars, toolVars, turnVars, loopVars, memVars, envVars, connVars, cli>>

\* generate_response_node: `await self.llm.ainvoke(full_messages)` starts streaming.
generate_response_node_call(chunks) ==
    /\ ws.pc = "use_tools" /\ ws.pending = <<>> /\ ws.calls = 0
    /\ ws' = [ws EXCEPT !.pc = "generate_response", !.source = "generate_response",
                        !.pending = chunks, !.final_output = chunks]
    /\ UNCHANGED <<execVars, toolVars, turnVars, loopVars, memVars, envVars, connVars, cli>>

\* The event stream is over: stream_end, and the response goes to the chat history as
\* the assistant message.  Nothing is handed to the memory service.
ws_stream_over ==
    /\ ws.pc = "generate_response" /\ ws.pending = <<>>
    /\ ws' = [ws EXCEPT !.pc = "receive",
                        !.sent = IF ws.stream_started THEN Append(@, "stream_end") ELSE @,
                        !.assistant = IF ws.full_response # <<>>
                                      THEN contents(ws.full_response) ELSE @,
                        !.delivered = ws.full_response,
                        !.completed = @ + 1]
    /\ UNCHANGED <<execVars, toolVars, turnVars, loopVars, memVars, envVars, connVars, cli>>

\* What may raise inside the `try` of a turn, by the place the turn is at: the reload
\* of the row and the first model call before the stream has begun, a model call
\* while it streams, and a tool whose exception leaves the tool and ToolNode.
Failures(pc) ==
    CASE pc = "use_tools_node" -> {"profile reload", "model call"}
      [] pc \in {"use_tools", "generate_response"} -> {"model call"}
      [] pc = "tool" -> {"tool execution"}
      [] OTHER -> {}

\* Lines 379-384, `except Exception as e`: the error is logged, an error event is
\* sent and the loop goes back to receive_text; nothing is added to the history.
ws_except(cause) ==
    /\ cause \in Failures(ws.pc)
    /\ ws' = [ws EXCEPT !.pc = "receive", !.pending = <<>>, !.calls = 0,
                        !.sent = Append(@, "error"), !.failed = cause]
    /\ UNCHANGED <<execVars, toolVars, turnVars, loopVars, memVars, envVars, connVars, cli>>

\* The name of the k-th message of a conversation.
turn_message(k) == IF k = 1 THEN "m1" ELSE "m2"

\* One turn of the command-line chat: the input and, after the stream, the response
\* are appended to conversation_messages.
cli_turn ==
    /\ cli.pc = "input"
    /\ cli.completed < MaxTurns
    /\ cli' = [cli EXCEPT !.completed = @ + 1,
                          !.conversation_messages =
                              @ \cup {turn_message(Cardinality(@) + 1)}]
    /\ UNCHANGED <<execVars, toolVars, turnVars, loopVars, memVars, envVars, connVars, ws>>

\* The input "clear".
cli_clear ==
    /\ cli.pc = "input"
    /\ cli.conversation_messages # {}
    /\ cli' = [cli EXCEPT !.conversation_messages = {}]
    /\ UNCHANGED <<execVars, toolVars, turnVars, loopVars, memVars, envVars, connVars, ws>>

\* The input "quit": schedule_memory_extraction(user_id, conversation_messages,
\* delay_seconds=5), which is ReflectionExecutor.submit, when there are messages; the
\* 5 seconds are counted as one tick.
cli_quit ==
    /\ cli.pc = "input"
    /\ cli' = [cli EXCEPT !.pc = "exited"]
    /\ IF cli.conversation_messages # {}
       THEN LET id == Len(tasks) + 1
            IN  /\ tasks' = Append(cancel_existing(tasks, _pending_tasks, CliUser, id),
                                   new_task(CliUser, cli.conversation_messages,
                                            delay_of(1)))
                /\ _pending_tasks' = [_pending_tasks EXCEPT ![CliUser] = id]
       ELSE UNCHANGED <<tasks, _pending_tasks>>
    /\ UNCHANGED <<now, toolVars, turnVars, loopVars, memVars, envVars, connVars, ws>>

\* KeyboardInterrupt at the prompt.
cli_interrupt ==
    /\ cli.pc = "input"
    /\ cli' = [cli EXCEPT !.pc = "exited"]
    /\ UNCHANGED <<execVars, toolVars, turnVars, loopVars, memVars, envVars, connVars, ws>>

SessionInit == ExecIdle /\ ToolsIdle /\ TurnsIdle /\ LoopIdle /\ LaterIdle

SessionNext ==
    \/ ws_receive
    \/ \E reply \in SelectionReplies : use_tools_node_call(reply)
    \/ on_chat_model_stream
    \/ on_tool_start
    \/ \E tool_ok \in BOOLEAN : on_tool_end(tool_ok)
    \/ \E cause \in {"profile reload", "model call", "tool execution"} : ws_except(cause)
    \/ \E chunks \in FinalReplies : generate_response_node_call(chunks)
    \/ ws_stream_over
    \/ cli_turn
    \/ cli_clear
    \/ cli_quit
    \/ cli_interrupt

SpecSession == SessionInit /\ [][SessionNext]_vars

\* The error events sent for the message of the turn; none when the turn ran to the
\* end of the stream.
ErrorEvents == {i \in DOMAIN ws.sent : ws.sent[i] = "error"}

\* C18: after every websocket turn, the text delivered to the user and stored as the
\* assistant message is exactly the output of the final generate_response model call,
\* with nothing from the tool-selection model call in it.
C18_DeliveredIsFinalOutput ==
    (ws.pc = "receive" /\ ws.completed > 0 /\ ErrorEvents = {}) =>
        /\ ws.assistant = ws.final_output
        /\ \A i \in DOMAIN ws.delivered : ws.delivered[i].from = "generate_response"

\* The jobs of user u's that were scheduled and not cancelled.
Scheduled(u) == {i \in DOMAIN tasks : tasks[i].user = u /\ ~tasks[i].must_cancel}

\* C19: after every completed turn of a user a background memory extraction that
\* covers the turn is scheduled.
C19_ExtractionScheduledAfterTurn ==
    /\ (ws.pc = "receive" /\ ws.completed > 0) => Scheduled(WsUser) # {}
    /\ cli.completed > 0 =>
           \E i \in Scheduled(CliUser) :
               \A k \in 1..cli.completed : turn_message(k) \in tasks[i].messages
\* C30: when something failed while a websocket turn was processed (the profile
\* reload, a model call, the execution of a tool), the client has received exactly one
\* error event for that message when the turn is over, and the connection is back in
\* its loop, waiting for the next message.
C30_FailureGivesOneErrorEvent ==
    (ws.failed # "" /\ ws.pc = "receive") => Cardinality(ErrorEvents) = 1

(***************************************************************************)
(* The connection manager and the start of a connection                    *)
(* (app/api/routes/websocket.py).  The manager keeps one websocket per     *)
(* user id; every event of the route is sent through                       *)
(* manager.send_message(user_id, ...).                                     *)
(***************************************************************************)

\* ConnectionManager.send_message: the event goes to the websocket registered for the
\* user, if there is one; send_json on a websocket that has been closed raises.
send_message(active, socks, user_id, event) ==
    IF active[user_id] = NoneV THEN [sockets |-> socks, raised |-> FALSE]
    ELSE IF ~socks[active[user_id]].open THEN [sockets |-> socks, raised |-> TRUE]
    ELSE [sockets |-> [socks EXCEPT ![active[user_id]].events = Append(@, event)],
          raised |-> FALSE]

\* ConnectionManager.disconnect
disconnect(active, user_id) == [active EXCEPT ![user_id] = NoneV]

\* _get_fallback_welcome
_get_fallback_welcome(name, onboarding, natal_chart) ==
    IF onboarding
    THEN IF truthy(name) THEN "Hey <name>! Welcome to Archon. When's your birthday?"
         ELSE "Welcome to Archon! What should I call you?"
    ELSE IF natal_chart # <<>> THEN "Welcome back! Your chart: <summary>"
         ELSE "Welcome back! What would you like to explore today?"

\* How the synthetic opening turn may end: graph.ainvoke raises, its last message is
\* not an AIMessage, or it is one with the content the model gave.
OpeningTurns ==
    {[raised |-> TRUE, is_ai |-> FALSE, content |-> ""],
     [raised |-> FALSE, is_ai |-> FALSE, content |-> "tool result"],
     [raised |-> FALSE, is_ai |-> TRUE, content |-> "Welcome, friend."],
     [raised |-> FALSE, is_ai |-> TRUE, content |-> ""]}

\* generate_dynamic_welcome, given how the opening turn ended
generate_dynamic_welcome(user, result) ==
    IF ~result.raised /\ result.is_ai THEN result.content
    ELSE _get_fallback_welcome(user.name, needs_onboarding(user), user.natal_chart_data)

\* Lines 178-226: the token names a user with a row; the websocket is accepted and
\* registered under the user's id.
connect(c) ==
    /\ sockets[c].pc = "closed"
    /\ db[user_of[c]].exists
    /\ active_connections' = [active_connections EXCEPT ![user_of[c]] = c]
    /\ sockets' = [sockets EXCEPT ![c] = [NoSocket EXCEPT !.pc = "welcome", !.open = TRUE]]
    /\ UNCHANGED <<execVars, toolVars, turnVars, loopVars, memVars, envVars, sessionVars,
                   history_messages>>

\* Lines 228-240: generate_dynamic_welcome has built the graph and run the opening
\* turn, and the welcome event is sent through the manager.  An exception of the send
\* leaves the handler, which is outside its `try` here.
send_welcome(c, result) ==
    LET user_id == user_of[c]
        welcome == [type |-> "welcome",
                    content |-> generate_dynamic_welcome(db[user_id], result)]
    IN  /\ sockets[c].pc = "welcome"
        /\ _user_context' = [user_id |-> user_id, natal_chart |-> db[user_id].natal_chart_data,
                             profile |-> profile_dict(db[user_id])]
        /\ \E r \in {send_message(active_connections, sockets, user_id, welcome)} :
               sockets' = [r.sockets EXCEPT ![c].pc = IF r.raised THEN "ended" ELSE "receive"]
        /\ UNCHANGED <<db, profiles, last, stored, execVars, turnVars, loopVars, memVars,
                       envVars, sessionVars, active_connections, history_messages>>

\* HumanMessage(content=...) and AIMessage(content=...)
HumanMessage(content) == [type |-> "human", content |-> content]

AIMessage(content) == [type |-> "ai", content |-> content]

\* `chat_histories[user_id][-10:]`, on the list itself
last_messages(h) ==
    IF Len(h) > history_limit THEN SubSeq(h, Len(h) - history_limit + 1, Len(h)) ELSE h

\* The list `chat_histories[user_id] + [HumanMessage(content=content)]` of line 309.
graph_input(h, content) == h \o <<HumanMessage(content)>>

\* The number of messages a connection's client sends.
MaxChats == 1

\* How the streaming of a turn may end: with an answer, with no text at all, or with
\* an exception of the graph.  A message is named by the connection and the number of
\* the turn, and so is the answer to it.
TurnOutcomes == {"answer", "", "raised"}

\* Lines 245-384: one message of the client.  It is appended to the history, which is
\* cut to its last ten messages; the typing indicator is sent; the graph is given the
\* history and the message; the events of the answer are sent and, when there was an
\* answer, the message and the answer are appended to the history.  An exception of
\* the graph sends an error event.  When the first send raises, the outer
\* `except Exception` disconnects the user and the handler ends.
chat_turn(c, outcome) ==
    LET user_id == user_of[c]
        content == <<"said", c, sockets[c].processed + 1>>
        full_response == IF outcome = "answer"
                         THEN <<"answer", c, sockets[c].processed + 1>> ELSE <<>>
        received_history == last_messages(Append(history_messages[user_id], HumanMessage(content)))
        typing == send_message(active_connections, sockets, user_id, [type |-> "typing", content |-> ""])
        event == IF outcome = "raised" THEN <<[type |-> "error", content |-> "error"]>>
                 ELSE IF outcome = "" THEN <<>>
                 ELSE <<[type |-> "message", content |-> outcome]>>
        sent == IF event = <<>> THEN typing
                ELSE send_message(active_connections, typing.sockets, user_id, event[1])
    IN  /\ sockets[c].pc = "receive"
        /\ sockets[c].open
        /\ sockets[c].processed < MaxChats
        /\ IF typing.raised
           THEN /\ sockets' = [sockets EXCEPT ![c].pc = "ended"]
                /\ active_connections' = disconnect(active_connections, user_id)
                /\ history_messages' = [history_messages EXCEPT ![user_id] = received_history]
                /\ chat_histories' = [chat_histories EXCEPT ![user_id] = trim(@ + 1)]
           ELSE /\ sockets' = [sent.sockets EXCEPT
                                  ![c].processed = @ + 1,
                                  ![c].handed = graph_input(received_history, content),
                                  ![c].full_response = full_response]
                /\ active_connections' = active_connections
                /\ history_messages' =
                       [history_messages EXCEPT ![user_id] =
                           IF full_response = <<>> THEN received_history
                           ELSE received_history
                                    \o <<HumanMessage(content), AIMessage(full_response)>>]
                /\ chat_histories' =
                       [chat_histories EXCEPT ![user_id] =
                           IF full_response = <<>> THEN trim(@ + 1) ELSE trim(@ + 1) + 2]
        /\ UNCHANGED <<execVars, toolVars, turns, received, loopVars, memVars, envVars,
                       sessionVars>>

\* The client closes its websocket.  A handler waiting in receive_text gets
\* WebSocketDisconnect and calls manager.disconnect(user_id); a handler that is still
\* generating the welcome finds out when it sends.
client_close(c) ==
    /\ sockets[c].open
    /\ sockets' = [sockets EXCEPT ![c].open = FALSE,
                                  ![c].pc = IF @ = "receive" THEN "ended" ELSE @]
    /\ active_connections' = IF sockets[c].pc = "receive"
                              THEN disconnect(active_connections, user_of[c])
                              ELSE active_connections
    /\ UNCHANGED <<execVars, toolVars, turnVars, loopVars, memVars, envVars, sessionVars,
                   history_messages>>

\* Both users are registered and no websocket is connected.
ConnInit ==
    /\ ExecIdle /\ TurnsIdle /\ OthersIdle
    /\ db = [u \in Users |-> NewRow(u)]
    /\ _user_context = NoContext
    /\ profiles = [u \in Users |-> NoProfile]
    /\ last = Op("init", NoneV)
    /\ stored = {}

ConnNext ==
    \/ \E c \in Conns : connect(c)
    \/ \E c \in Conns : \E result \in OpeningTurns : send_welcome(c, result)
    \/ \E c \in Conns : \E outcome \in TurnOutcomes : chat_turn(c, outcome)
    \/ \E c \in Conns : client_close(c)

SpecConnections == ConnInit /\ [][ConnNext]_vars

\* The positions of the welcome events a websocket has received.
Welcomes(c) == {i \in DOMAIN sockets[c].events : sockets[c].events[i].type = "welcome"}

\* C31: every accepted connection is sent exactly one welcome event, before any
\* message of the client is processed, and its content is not empty, whether the
\* opening turn succeeded or failed: a connection that has reached its message loop
\* has received one welcome, as its first event, with content.
C31_OneWelcomeFirst ==
    \A c \in Conns :
        sockets[c].pc = "receive" =>
            /\ Cardinality(Welcomes(c)) = 1
            /\ sockets[c].events[1].type = "welcome"
            /\ sockets[c].events[1].content # ""

\* C39: a user with at least one open websocket connection has a registered
\* connection that is open; after a second connection has been opened and the first
\* has disconnected, the second is still registered and receives the user's events.
C39_OpenConnectionStaysRegistered ==
    \A c \in Conns :
        (sockets[c].open /\ sockets[c].pc = "receive") =>
            /\ active_connections[user_of[c]] # NoneV
            /\ sockets[active_connections[user_of[c]]].open

\* How often a message occurs in a list of messages.
Occurrences(h, m) == Cardinality({i \in DOMAIN h : h[i] = m})

\* The steps in which connection c has processed a message of its client.
Processed(c) == sockets'[c].processed = sockets[c].processed + 1

\* C38: each user message received over the websocket appears exactly once in the
\* message list handed to the orchestrator for its turn and exactly once in the
\* stored chat history after the turn, and is followed there by exactly one assistant
\* message when a response was produced.
C38_MessageOncePerTurn ==
    [][\A c \in Conns :
          Processed(c) =>
              LET said == HumanMessage(<<"said", c, sockets'[c].processed>>)
                  answer == AIMessage(<<"answer", c, sockets'[c].processed>>)
                  h == history_messages'[user_of[c]]
              IN  /\ Occurrences(sockets'[c].handed, said) = 1
                  /\ Occurrences(h, said) = 1
                  /\ sockets'[c].full_response # <<>> =>
                        /\ Occurrences(h, answer) = 1
                        /\ \E i \in DOMAIN h : i > 1 /\ h[i] = answer /\ h[i - 1] = said]_vars

(***************************************************************************)
(* The tool calls of one reply (graph_agent.py use_tools_node): an update  *)
(* of the profile and a tool that needs the chart, requested together.     *)
(***************************************************************************)

\* The connection whose turns are followed.
ToolNodeConns == {"a1"}

\* The calls a reply may carry.
UpdateCall(field, value, needs_geocoding) ==
    [name |-> "update_user_profile", field |-> field, value |-> value,
     needs_geocoding |-> needs_geocoding]

ChartCall(name) == [name |-> name, field |-> NoneV, value |-> NoneV, needs_geocoding |-> FALSE]

\* The replies tried: the update that can complete the birth data, before or after a
\* tool that needs the chart, and each of them alone.
ToolNodeCalls ==
    {<<UpdateCall("birth_city", "Austin", TRUE), ChartCall("get_current_transits")>>,
     <<UpdateCall("birth_date", "June 15, 1990", FALSE), ChartCall("get_current_transits")>>,
     <<ChartCall("get_current_transits"), UpdateCall("birth_city", "Austin", TRUE)>>,
     <<UpdateCall("birth_city", "Austin", TRUE)>>,
     <<ChartCall("get_current_transits")>>}

\* ToolNode.ainvoke runs the calls of the reply with asyncio.gather, the synchronous
\* tools in worker threads: call i runs against the context as it is when it runs,
\* whatever its place in the reply.
run_tool_call(c, i) ==
    LET call == turns[c].calls[i]
    IN  /\ turns[c].pc = "tools"
        /\ i \in 1..Len(turns[c].calls)
        /\ \A k \in DOMAIN turns[c].ran : turns[c].ran[k] # i
        /\ \E r \in {IF call.name = "update_user_profile"
                     THEN update_user_profile_run(_user_context, db, call.field, call.value,
                                                  call.needs_geocoding, TRUE, TRUE)
                     ELSE Ret(db, _user_context,
                              chart_tool_run(_user_context, call.name, TRUE).out, FALSE, TRUE)} :
               /\ db' = r.db
               /\ _user_context' = r.ctx
               /\ turns' = [turns EXCEPT ![c].ran = Append(@, i),
                                         ![c].results[i] = r.out,
                                         ![c].used = @ \cup {_user_context.user_id}]
        /\ UNCHANGED <<profiles, last, stored, execVars, chat_histories, received, otherVars>>

\* The rows user A may have when the conversation starts: nothing but the account,
\* the birth date without the place, or the place without the date.
StartRows ==
    {NewRow("A"),
     [NewRow("A") EXCEPT !.birth_date = "1990-06-15"],
     [NewRow("A") EXCEPT !.birth_location = "Austin", !.birth_latitude = "30.3",
                         !.birth_longitude = "-97.7", !.birth_timezone = "America/Chicago"]}

ToolNodeInit ==
    /\ ExecIdle /\ OthersIdle /\ TurnsIdle
    /\ \E row \in StartRows : db = [u \in Users |-> IF u = "A" THEN row ELSE NewRow(u)]
    /\ _user_context = NoContext
    /\ profiles = [u \in Users |-> NoProfile]
    /\ last = Op("init", NoneV)
    /\ stored = {}

ToolNodeNext ==
    \/ \E c \in ToolNodeConns : receive(c)
    \/ \E c \in ToolNodeConns : build_graph(c)
    \/ \E c \in ToolNodeConns : \E calls \in ToolNodeCalls : llm_tools_return(c, calls)
    \/ \E c \in ToolNodeConns : \E i \in 1..Len(turns[c].calls) : run_tool_call(c, i)
    \/ \E c \in ToolNodeConns : generate_response_node(c)
    \/ \E c \in ToolNodeConns : respond(c)

SpecToolNode == ToolNodeInit /\ [][ToolNodeNext]_vars

\* The confirmations of update_user_profile that say the chart is there.
ChartConfirmations ==
    {"Saved birth location. Your natal chart has been computed!",
     "Saved birth location. Chart computed!",
     "Saved birth date. Your natal chart has been computed!",
     "Saved birth date. Chart computed!",
     "Saved birth time. Your natal chart has been updated"}

\* C32: within one turn, when the reply requests an update_user_profile call that
\* makes the natal chart present and, after it, a call of a tool that needs the chart,
\* the second call runs after the update has committed and sees the new chart: it
\* does not return the chart-not-available error.
C32_ChartToolSeesUpdateOfSameTurn ==
    \A c \in ToolNodeConns :
        \A i, j \in DOMAIN turns[c].calls :
            (/\ turns[c].pc = "tools"
             /\ Len(turns[c].ran) = Len(turns[c].calls)
             /\ i < j
             /\ turns[c].calls[i].name = "update_user_profile"
             /\ turns[c].calls[j].name \in ChartTools
             /\ turns[c].results[i] \in ChartConfirmations)
            => turns[c].results[j] # ChartUnavailable

\* C33: whenever the confirmation returned by update_user_profile says that the chart
\* has been computed or updated, a natal chart computed from the birth data stored by
\* that call is stored for the user when the call returns; the tool never reports a
\* computed chart after the chart engine failed.
C33_ConfirmationMeansChartStored ==
    (last.op = "update_user_profile" /\ last.out \in ChartConfirmations) =>
        /\ last.engine_ok
        /\ db[last.user].natal_chart_data # <<>>
        /\ db[last.user].natal_chart_data = chart_of(db[last.user])

\* The field names update_user_profile documents.
SupportedFields == {"name", "gender", "birth_date", "birth_time", "birth_city", "current_city"}

\* C34: update_user_profile handles each of the six field names name, gender,
\* birth_date, birth_time, birth_city and current_city for every value of
\* needs_geocoding, storing the value or returning an error of that field, and answers
\* 'Unknown field' only for a field name outside this set, and then the profile is
\* unchanged.
C34_UnknownFieldOnlyForOtherNames ==
    [][(last'.op = "update_user_profile" /\ last'.out = "Unknown field" /\ last' # last) =>
          /\ last'.field \notin SupportedFields
          /\ db' = db]_vars

\* The birth data and the chart of a row.
BirthAndChart(user) ==
    <<user.birth_date, user.birth_time, user.birth_location, user.birth_latitude,
      user.birth_longitude, user.birth_timezone, user.natal_chart_data>>

\* C35: an update_user_profile call for name, gender or current_city leaves the
\* user's birth date, birth time, birth location and natal chart unchanged, and a call
\* for any field leaves every other user's record unchanged.
C35_UpdateLeavesTheRestAlone ==
    [][last'.op = "update_user_profile" =>
          \A u \in Users :
              /\ u # last'.user => db'[u] = db[u]
              /\ (u = last'.user /\ last'.field \in {"name", "gender", "current_city"}) =>
                     BirthAndChart(db'[u]) = BirthAndChart(db[u])]_vars

\* A name, gender or current city has been stored for a user who has a chart.
C35_Witness ==
    /\ last.op = "update_user_profile"
    /\ last.field \in {"name", "gender", "current_city"}
    /\ last.stored
    /\ db[last.user].natal_chart_data # <<>>

\* The place of memory m in the list h.
PlaceIn(h, m) == CHOOSE i \in DOMAIN h : h[i] = m

C37_SearchReturnsCurrentMemories ==
    mem_last.op = "search_memories" =>
        /\ \A m \in mem_last.results :
               \E i \in DOMAIN memories[mem_last.user_id] :
                   memories[mem_last.user_id][i] = m[1]
        /\ Cardinality(mem_last.results) <= mem_last.limit

\* A search returned as many memories as its limit allows while the index held more
\* documents of the user, one of them of a memory that consolidation had removed.
C37_Witness ==
    /\ mem_last.op = "search_memories"
    /\ mem_last.results # {}
    /\ Cardinality(mem_last.results) = mem_last.limit
    /\ Cardinality(query_candidates(chroma, mem_last.user_id)) > mem_last.limit
    /\ \E d \in query_candidates(chroma, mem_last.user_id) :
           _get_memory_by_id(memories, mem_last.user_id, d.metadata.memory_id) = <<>>
====
